---- MODULE Spec2Model ----
(***************************************************************************)
(* A model of the content pipeline of linus: front-matter parsing and      *)
(* merging (src/content/front-matter.ts), markdown and liquid-tag scanning *)
(* (src/content/markdown.ts, src/content/liquid-tags.ts), the article      *)
(* validator (src/content/validator.ts), the article handlers that call   *)
(* them (src/tools/articles.ts), and the client they write through: the    *)
(* rate limiter (src/client/rate-limiter.ts), ForemClient.request and      *)
(* paginateAll.                                                            *)
(*                                                                         *)
(* Strings are sequences of character tokens; a markdown document is a     *)
(* sequence of lines (the document split at its newline characters), so    *)
(* the empty string is the document made of one empty line.  A JavaScript  *)
(* value is a record carrying its type tag; an object is a function from   *)
(* its keys to values.                                                     *)
(***************************************************************************)
EXTENDS Integers, Sequences, FiniteSets, TLC

VARIABLES
  bodyGiven,     \* FALSE: the body argument is undefined
  body,          \* the markdown body, a sequence of lines
  jsonParams,    \* the explicit parameters, in Object.entries order
  pc,            \* which operation has run
  fmResult,      \* what parseFrontMatter returned
  mergeResult,   \* what mergeAndNormalize returned
  createCall,    \* what handleCreateArticle handed to client.createArticle
  issues,        \* the issues validateArticle has pushed so far
  valResult,     \* what validateArticle returned
  liquidReport,  \* what detectLiquidTags returned
  convertResult, \* what convertLiquidTag returned
  stripResult,   \* what stripLiquidTags returned
  images,        \* what extractImageUrls returned
  updateCall,    \* what handleUpdateArticle handed to client.updateArticle
  buckets,       \* RateLimiter: this.buckets
  backoffMs,     \* RateLimiter: this.backoffMs
  clock,         \* the reading of Date.now()
  callers,       \* where each caller of acquire stands
  grants,        \* for each bucket, the times at which acquire has returned
  hits,          \* the calls of recordRateLimitHit since the last reset
  lastDelay,     \* what recordRateLimitHit returned last
  req,           \* ForemClient.request: the call in progress
  pager          \* paginateAll: the call in progress

\* the results of the functions of src/content/liquid-tags.ts
liquidVars == <<liquidReport, convertResult, stripResult>>

\* the state of the RateLimiter and of its callers
limiterVars == <<buckets, backoffMs, clock, callers, grants, hits, lastDelay>>

\* the calls of the functions of src/client/forem.ts
clientVars == <<req, pager>>

\* what the functions of the content pipeline leave alone
otherVars == <<images, updateCall, limiterVars, clientVars>>

vars ==
  <<bodyGiven, body, jsonParams, pc, fmResult, mergeResult, createCall, issues,
    valResult, liquidVars, otherVars>>

(***************************************************************************)
(* Bounds of the model.                                                    *)
(***************************************************************************)
\* lines between the opening delimiter and the closing one
MaxBlock == 2
\* entries of the explicit parameter record
MaxParams == 2
\* lines of the body after its front matter, where validateArticle is called
MaxContent == 2
\* lines of the documents the liquid-tag functions are called on
MaxLines == 3
\* entries of the tags parameter, where the tag checks are looked at
MaxEntries == 5
\* callers that may be inside RateLimiter.acquire at once
NumCallers == 2
\* maxTokens of the create bucket (10 in the source, scaled down)
CreateTokens == 2
\* maxTokens of the update bucket (30 in the source, scaled down)
UpdateTokens == 3
\* windowMs of both buckets, in ticks of the clock (30 seconds in the source)
WindowTicks == 3
\* the last reading of the clock
MaxClock == 5
\* acquisitions granted per bucket
MaxGrants == 4
\* calls of ForemClient.request on one client
MaxCalls == 3
\* pages the server holds, where paginateAll is called
MaxPages == 3
\* the perPage argument of paginateAll
MaxPerPage == 2

(***************************************************************************)
(* JavaScript values.                                                      *)
(***************************************************************************)
Undefined == [t |-> "undefined", s |-> <<>>, l |-> <<>>]
Null == [t |-> "null", s |-> <<>>, l |-> <<>>]
Str(s) == [t |-> "string", s |-> s, l |-> <<>>]
Num(s) == [t |-> "number", s |-> s, l |-> <<>>]
Bool(b) == [t |-> "boolean", s |-> IF b THEN <<"true">> ELSE <<"false">>, l |-> <<>>]
List(l) == [t |-> "array", s |-> <<>>, l |-> l]

RECURSIVE Join(_, _)
\* Array.prototype.join over an array of strings
Join(l, sep) ==
  IF l = <<>> THEN <<>>
  ELSE IF Len(l) = 1 THEN l[1]
  ELSE l[1] \o sep \o Join(Tail(l), sep)

\* String(v)
JsString(v) ==
  CASE v.t = "array" -> Join(v.l, <<",">>)
    [] v.t = "null" -> <<"null">>
    [] v.t = "undefined" -> <<"undefined">>
    [] OTHER -> v.s

EmptyMap == [k \in {} |-> Undefined]
Put(m, k, v) == [y \in (DOMAIN m) \cup {k} |-> IF y = k THEN v ELSE m[y]]

(***************************************************************************)
(* Lines of a document.  A line of a front-matter block is kept with the   *)
(* key and the value a YAML parser reads from it.                          *)
(***************************************************************************)
TextLine(toks) == [k |-> "text", key |-> "", val |-> Undefined, toks |-> toks]
Delim == [k |-> "delim", key |-> "", val |-> Undefined, toks |-> <<"-", "-", "-">>]

\* a value as it is written in a YAML line
YamlText(val) ==
  CASE val.t = "array" -> <<"[">> \o Join(val.l, <<",", " ">>) \o <<"]">>
    [] val.t = "null" -> <<"null">>
    [] OTHER -> val.s

KV(key, val) ==
  [k |-> "kv", key |-> key, val |-> val, toks |-> <<key, ":", " ">> \o YamlText(val)]
\* a line no YAML parser accepts, such as  title: "unterminated
BadLine ==
  [k |-> "bad", key |-> "", val |-> Undefined, toks |-> <<"title", ":", " ", "\"", "w">>]
BlankLine == TextLine(<<>>)
SpaceLine == TextLine(<<" ">>)
WordLine == TextLine(<<"w">>)

EmptyString == <<BlankLine>>

IsSpace(tok) == tok \in {" ", "\t"}
\* line.trim() = ''
LineIsBlank(line) == line.k = "text" /\ \A i \in 1..Len(line.toks) : IsSpace(line.toks[i])
\* !body.trim()
IsBlank(doc) == \A i \in 1..Len(doc) : LineIsBlank(doc[i])

(***************************************************************************)
(* gray-matter, as parseFrontMatter calls it: matter(body).  The document  *)
(* opens a front-matter block when its first line is the delimiter; the    *)
(* block runs to the next delimiter line, or to the end of the document    *)
(* when there is none.                                                     *)
(***************************************************************************)
\* index of the closing delimiter line, 0 when the block is never closed
CloseIndex(doc) ==
  IF \E i \in 2..Len(doc) : doc[i].k = "delim"
  THEN CHOOSE i \in 2..Len(doc) :
         doc[i].k = "delim" /\ \A j \in 2..(i - 1) : doc[j].k # "delim"
  ELSE 0

\* the lines between the delimiters
MatterBlock(doc) ==
  LET close == CloseIndex(doc)
  IN SubSeq(doc, 2, IF close = 0 THEN Len(doc) ELSE close - 1)

\* what follows the closing delimiter line
MatterContent(doc) ==
  LET close == CloseIndex(doc)
  IN IF close = 0 \/ close = Len(doc) THEN EmptyString
     ELSE SubSeq(doc, close + 1, Len(doc))

\* the YAML engine rejects the block: a line it cannot read, a key/value
\* line beside plain text, or a mapping key given twice
YamlThrows(block) ==
  \/ \E i \in 1..Len(block) : block[i].k = "bad"
  \/ /\ \E i \in 1..Len(block) : block[i].k = "kv"
     /\ \E i \in 1..Len(block) : block[i].k = "text" /\ ~LineIsBlank(block[i])
  \/ \E i, j \in 1..Len(block) :
       i # j /\ block[i].k = "kv" /\ block[j].k = "kv" /\ block[i].key = block[j].key

\* the block is plain text: YAML loads it as one string, not as a mapping
YamlIsScalar(block) ==
  /\ \A i \in 1..Len(block) : block[i].k = "text"
  /\ \E i \in 1..Len(block) : ~LineIsBlank(block[i])

RECURSIVE YamlMapping(_)
YamlMapping(block) ==
  IF block = <<>> THEN EmptyMap
  ELSE IF block[1].k = "kv"
       THEN Put(YamlMapping(Tail(block)), block[1].key, block[1].val)
       ELSE YamlMapping(Tail(block))

\* mutant: leading blank lines skipped before the delimiter is looked for
StartsWithDelimiterAfterTrim(doc) ==
  \E i \in 1..Len(doc) :
    doc[i].k = "delim" /\ \A j \in 1..(i - 1) : LineIsBlank(doc[j])

\* the document starts with the opening delimiter
StartsWithDelimiter(doc) == doc[1].k = "delim"

matter(doc) ==
  LET block == MatterBlock(doc)
  IN IF ~StartsWithDelimiter(doc)
     THEN [threw |-> FALSE, content |-> doc, data |-> EmptyMap, scalar |-> FALSE]
     ELSE IF IsBlank(block)
     THEN [threw |-> FALSE, content |-> MatterContent(doc), data |-> EmptyMap,
           scalar |-> FALSE]
     ELSE IF YamlThrows(block)
     THEN [threw |-> TRUE, content |-> doc, data |-> EmptyMap, scalar |-> FALSE]
     ELSE [threw |-> FALSE, content |-> MatterContent(doc),
           data |-> YamlMapping(block), scalar |-> YamlIsScalar(block)]

(***************************************************************************)
(* src/content/front-matter.ts                                             *)
(***************************************************************************)
\* mutant: organization_id listed among the known fields
KnownFieldsWithOrganization ==
  <<"title", "published", "description", "tags", "series", "canonical_url",
    "cover_image", "main_image", "organization_id">>

KNOWN_FIELDS ==
  <<"title", "published", "description", "tags", "series", "canonical_url",
    "cover_image", "main_image">>

NoFrontMatter(doc) ==
  [cleanBody |-> doc, extractedValues |-> EmptyMap, hasFrontMatter |-> FALSE,
   scalar |-> FALSE]

\* the catch branch: the body is returned as it came
ParseFailed(doc) == NoFrontMatter(doc)

\* Object.keys(parsed.data).length > 0; the keys of a string are its indices
HasKeys(parsed) == parsed.scalar \/ DOMAIN parsed.data # {}

parseFrontMatter(doc) ==
  LET parsed == matter(doc)
  IN IF doc = EmptyString \/ IsBlank(doc) THEN NoFrontMatter(doc)
     ELSE IF parsed.threw THEN ParseFailed(doc)
     ELSE [cleanBody |-> parsed.content,
           extractedValues |-> parsed.data,
           hasFrontMatter |-> HasKeys(parsed),
           scalar |-> parsed.scalar]

normalizeTags(tags) ==
  IF tags.t = "array" THEN Join(tags.l, <<",", " ">>)
  ELSE IF tags.t = "string" THEN tags.s
  ELSE IF tags.t \in {"null", "undefined"} THEN <<>>
  ELSE JsString(tags)

\* mutant: cover_image kept under its own key
SeedFieldNoAlias(merged, extracted, field) ==
  IF field \notin DOMAIN extracted THEN merged
  ELSE IF field = "tags" THEN Put(merged, field, Str(normalizeTags(extracted[field])))
  ELSE Put(merged, field, extracted[field])

\* one iteration of the loop over KNOWN_FIELDS
SeedField(merged, extracted, field) ==
  IF field \notin DOMAIN extracted THEN merged
  ELSE IF field = "tags" THEN Put(merged, field, Str(normalizeTags(extracted[field])))
  ELSE IF field = "cover_image" THEN Put(merged, "main_image", extracted[field])
  ELSE Put(merged, field, extracted[field])

RECURSIVE SeedParams(_, _, _)
SeedParams(merged, extracted, i) ==
  IF i > Len(KNOWN_FIELDS) THEN merged
  ELSE SeedParams(SeedField(merged, extracted, KNOWN_FIELDS[i]), extracted, i + 1)

\* the front-matter value an explicit key is compared with
FrontMatterValueFor(extracted, key) ==
  LET frontMatterKey == IF key = "main_image" THEN "cover_image" ELSE key
  IN IF frontMatterKey \in DOMAIN extracted THEN extracted[frontMatterKey]
     ELSE IF key \in DOMAIN extracted THEN extracted[key]
     ELSE Undefined

\* mutant: the two sides compared as they are, tags not normalized
NormalizedForNothing(key, value) == value

\* the value of either side as it is compared and reported
NormalizedFor(key, value) ==
  IF key = "tags" THEN Str(normalizeTags(value)) ELSE value

\* the conflict test of one explicit entry
Conflicts(extracted, key, value) ==
  /\ FrontMatterValueFor(extracted, key) # Undefined
  /\ JsString(NormalizedFor(key, FrontMatterValueFor(extracted, key)))
       # JsString(NormalizedFor(key, value))

\* the body of the loop over Object.entries(jsonParams), past its guard
ApplyEntry(acc, extracted, entry) ==
       [params |-> Put(acc.params, entry.key, entry.value),
        conflicts |->
          IF Conflicts(extracted, entry.key, entry.value)
          THEN Append(acc.conflicts,
                 [field |-> entry.key,
                  frontMatterValue |->
                    NormalizedFor(entry.key, FrontMatterValueFor(extracted, entry.key)),
                  jsonValue |-> NormalizedFor(entry.key, entry.value)])
          ELSE acc.conflicts]

\* mutant: the guard written  value == undefined , which null satisfies too
OverrideEntryLooseGuard(acc, extracted, entry) ==
  IF entry.value \in {Undefined, Null} THEN acc
  ELSE ApplyEntry(acc, extracted, entry)

\* one iteration of the loop over Object.entries(jsonParams)
OverrideEntry(acc, extracted, entry) ==
  IF entry.value = Undefined THEN acc
  ELSE ApplyEntry(acc, extracted, entry)

RECURSIVE OverrideParams(_, _, _, _)
OverrideParams(acc, extracted, params, i) ==
  IF i > Len(params) THEN acc
  ELSE OverrideParams(OverrideEntry(acc, extracted, params[i]), extracted, params, i + 1)

RECURSIVE SpreadFrom(_, _)
SpreadFrom(params, i) ==
  IF i = 0 THEN EmptyMap
  ELSE Put(SpreadFrom(params, i - 1), params[i].key, params[i].value)

\* { ...jsonParams }
Spread(params) == SpreadFrom(params, Len(params))

\* mutant: entries whose value is undefined left out of the copy
UnmergedDefinedOnly(doc, params) ==
  [threw |-> FALSE, body |-> doc,
   params |-> Spread(SelectSeq(params, LAMBDA e : e.value # Undefined)),
   conflicts |-> <<>>]

Unmerged(doc, params) ==
  [threw |-> FALSE, body |-> doc, params |-> Spread(params), conflicts |-> <<>>]

\* 'in' applied to a string primitive raises a TypeError
MergeThrew ==
  [threw |-> TRUE, body |-> EmptyString, params |-> EmptyMap, conflicts |-> <<>>]

Merged(parsed, params) ==
  LET acc == OverrideParams(
               [params |-> SeedParams(EmptyMap, parsed.extractedValues, 1),
                conflicts |-> <<>>],
               parsed.extractedValues, params, 1)
  IN [threw |-> FALSE, body |-> parsed.cleanBody, params |-> acc.params,
      conflicts |-> acc.conflicts]

mergeAndNormalize(given, doc, params) ==
  LET parsed == parseFrontMatter(doc)
  IN IF ~given \/ doc = EmptyString THEN Unmerged(EmptyString, params)
     ELSE IF ~parsed.hasFrontMatter THEN Unmerged(parsed.cleanBody, params)
     ELSE IF parsed.scalar THEN MergeThrew
     ELSE Merged(parsed, params)

(***************************************************************************)
(* src/tools/articles.ts: handleCreateArticle                              *)
(***************************************************************************)
\* the value of args.<key>, undefined when the argument is not given
Arg(params, key) ==
  IF \E i \in 1..Len(params) : params[i].key = key
  THEN (CHOOSE e \in {params[i] : i \in 1..Len(params)} : e.key = key).value
  ELSE Undefined

\* the record handleCreateArticle passes to mergeAndNormalize
CreateJsonParams(args) ==
  <<[key |-> "title", value |-> Arg(args, "title")],
    [key |-> "tags", value |-> Arg(args, "tags")],
    [key |-> "series", value |-> Arg(args, "series")],
    [key |-> "main_image", value |-> Arg(args, "main_image")],
    [key |-> "canonical_url", value |-> Arg(args, "canonical_url")],
    [key |-> "description", value |-> Arg(args, "description")],
    [key |-> "organization_id", value |-> Arg(args, "organization_id")]>>

NoCall ==
  [called |-> FALSE, published |-> Undefined, defaultPublished |-> FALSE,
   articleParams |-> EmptyMap, hasBody |-> FALSE, body_markdown |-> EmptyString,
   conflicts |-> <<>>]

\* args.published ?? defaultPublished
PublishedFor(published, defaultPublished) ==
  IF published \in {Undefined, Null} THEN Bool(defaultPublished) ELSE published

\* mutant: { published, ...params }, the merged parameters spread last
handleCreateArticleSpreadLast(given, doc, args, published, defaultPublished) ==
  LET merged == mergeAndNormalize(given, doc, CreateJsonParams(args))
  IN IF merged.threw
     THEN [NoCall EXCEPT !.published = published,
                         !.defaultPublished = defaultPublished]
     ELSE [called |-> TRUE, published |-> published,
           defaultPublished |-> defaultPublished,
           articleParams |->
             IF "published" \in DOMAIN merged.params THEN merged.params
             ELSE Put(merged.params, "published",
                      PublishedFor(published, defaultPublished)),
           hasBody |-> given,
           body_markdown |-> IF given THEN merged.body ELSE EmptyString,
           conflicts |-> merged.conflicts]

handleCreateArticle(given, doc, args, published, defaultPublished) ==
  LET merged == mergeAndNormalize(given, doc, CreateJsonParams(args))
  IN IF merged.threw
     THEN [NoCall EXCEPT !.published = published,
                         !.defaultPublished = defaultPublished]
     ELSE [called |-> TRUE, published |-> published,
           defaultPublished |-> defaultPublished,
           articleParams |->
             Put(merged.params, "published",
                 PublishedFor(published, defaultPublished)),
           hasBody |-> given,
           body_markdown |-> IF given THEN merged.body ELSE EmptyString,
           conflicts |-> merged.conflicts]

(***************************************************************************)
(* src/tools/articles.ts: handleUpdateArticle                              *)
(***************************************************************************)
\* jsonParams: the arguments that are not undefined, in the order assigned
UpdateJsonParams(args) == SelectSeq(CreateJsonParams(args), LAMBDA e : e.value # Undefined)

NoUpdate ==
  [called |-> FALSE, published |-> Undefined, articleParams |-> EmptyMap,
   hasBody |-> FALSE, body_markdown |-> EmptyString, conflicts |-> <<>>]

handleUpdateArticle(given, doc, args, published) ==
  LET merged == mergeAndNormalize(given, doc, UpdateJsonParams(args))
  IN IF merged.threw
     THEN [NoUpdate EXCEPT !.published = published]
     ELSE [called |-> TRUE, published |-> published,
           articleParams |->
             IF published # Undefined THEN Put(merged.params, "published", published)
             ELSE merged.params,
           hasBody |-> given,
           body_markdown |-> IF given THEN merged.body ELSE EmptyString,
           conflicts |-> merged.conflicts]

(***************************************************************************)
(* Text as the regular expressions of the content modules see it: a string *)
(* is the sequence of its tokens, a document its lines joined by newlines. *)
(***************************************************************************)
Min(S) == CHOOSE x \in S : \A y \in S : x <= y
Max(S) == CHOOSE x \in S : \A y \in S : y <= x

\* \s
Whitespace == {" ", "\t", "\n"}

\* the tokens that are not \w characters
Punctuation ==
  Whitespace \cup
  {"{%", "%}", "!", "[", "]", "(", ")", "<", ">", "src=", "\"", "backtick", "-",
   "#", "*", "~", ":", ",", ".", "/", "./", "http://", "https://", "HTTP://",
   "@", "$$", "<details>", "</details>", "<summary>", "</summary>",
   "https://github.com/", "https://www.youtube.com/watch?v=",
   "https://twitter.com/i/status/", "https://codesandbox.io/s/"}

\* \w+
IsWord(tok) == tok \notin Punctuation

\* String.prototype.trim
Trim(s) ==
  LET kept == {i \in 1..Len(s) : s[i] \notin Whitespace}
  IN IF kept = {} THEN <<>> ELSE SubSeq(s, Min(kept), Max(kept))

\* String.prototype.toLowerCase, token by token
LowerToken(tok) ==
  CASE tok = "A" -> "a"
    [] tok = "B" -> "b"
    [] tok = "HTTP://" -> "http://"
    [] OTHER -> tok

ToLowerCase(s) == [i \in 1..Len(s) |-> LowerToken(s[i])]

RECURSIVE JoinLines(_)
\* the document as one string
JoinLines(doc) ==
  IF Len(doc) = 1 THEN doc[1].toks
  ELSE doc[1].toks \o <<"\n">> \o JoinLines(Tail(doc))

\* the first index at or after i that holds no whitespace
SkipSpace(s, i) ==
  LET rest == {j \in i..Len(s) : s[j] \notin Whitespace}
  IN IF rest = {} THEN Len(s) + 1 ELSE Min(rest)

\* the first index at or after i that holds tok, 0 when there is none
IndexOf(s, tok, i) ==
  LET found == {j \in i..Len(s) : s[j] = tok}
  IN IF found = {} THEN 0 ELSE Min(found)

(***************************************************************************)
(* src/content/markdown.ts                                                 *)
(***************************************************************************)
NoMatch == [ok |-> FALSE, url |-> <<>>, last |-> 0]

\* markdownImagePattern matched at index s of a line
MarkdownImageAt(line, s) ==
  LET closers == {j \in (s + 2)..(Len(line) - 1) :
                    /\ line[j] = "]"
                    /\ line[j + 1] = "("
                    /\ IndexOf(line, ")", j + 2) # 0}
  IN IF s + 1 <= Len(line) /\ line[s] = "!" /\ line[s + 1] = "[" /\ closers # {}
     THEN LET j == Min(closers)
              k == IndexOf(line, ")", j + 2)
          IN [ok |-> TRUE, url |-> SubSeq(line, j + 2, k - 1), last |-> k]
     ELSE NoMatch

\* htmlImagePattern matched at index s of a line: <img, one character or more
\* that is not >, src=, a quote, the URL up to the next quote, and on to the
\* first >
HtmlImageAt(line, s) ==
  LET quotes == {"\""}
      sources == {j \in (s + 3)..(Len(line) - 1) :
                    /\ line[j] = "src="
                    /\ \A i \in (s + 2)..(j - 1) : line[i] # ">"
                    /\ line[j + 1] \in quotes
                    /\ \E q \in (j + 2)..Len(line) :
                         /\ line[q] \in quotes
                         /\ \A i \in (j + 2)..(q - 1) : line[i] \notin quotes
                         /\ IndexOf(line, ">", q + 1) # 0}
  IN IF s + 1 <= Len(line) /\ line[s] = "<" /\ line[s + 1] = "img"
        /\ sources # {}
     THEN LET j == Max(sources)
              q == Min({i \in (j + 2)..Len(line) : line[i] \in quotes})
          IN [ok |-> TRUE, url |-> SubSeq(line, j + 2, q - 1),
              last |-> IndexOf(line, ">", q + 1)]
     ELSE NoMatch

\* mutant: the test for an absolute URL without the i flag
isAbsoluteUrlCaseSensitive(url) == url # <<>> /\ url[1] \in {"http://", "https://"}

\* /^https?:\/\//i
isAbsoluteUrl(url) == url # <<>> /\ LowerToken(url[1]) \in {"http://", "https://"}

ImageInfo(url, lineNumber) ==
  [url |-> Trim(url), lineNumber |-> lineNumber, isAbsolute |-> isAbsoluteUrl(Trim(url))]

RECURSIVE MarkdownImages(_, _, _)
\* the exec loop of markdownImagePattern over one line
MarkdownImages(line, lineNumber, from) ==
  LET starts == {s \in from..Len(line) : MarkdownImageAt(line, s).ok}
  IN IF starts = {} THEN <<>>
     ELSE LET m == MarkdownImageAt(line, Min(starts))
          IN <<ImageInfo(m.url, lineNumber)>> \o MarkdownImages(line, lineNumber, m.last + 1)

RECURSIVE HtmlImages(_, _, _)
\* the exec loop of htmlImagePattern over one line
HtmlImages(line, lineNumber, from) ==
  LET starts == {s \in from..Len(line) : HtmlImageAt(line, s).ok}
  IN IF starts = {} THEN <<>>
     ELSE LET m == HtmlImageAt(line, Min(starts))
          IN <<ImageInfo(m.url, lineNumber)>> \o HtmlImages(line, lineNumber, m.last + 1)

RECURSIVE ImagesFromHtmlFirst(_, _)
\* mutant: the img elements of a line are looked for before its markdown images
ImagesFromHtmlFirst(doc, lineNumber) ==
  IF lineNumber > Len(doc) THEN <<>>
  ELSE HtmlImages(doc[lineNumber].toks, lineNumber, 1)
         \o MarkdownImages(doc[lineNumber].toks, lineNumber, 1)
         \o ImagesFromHtmlFirst(doc, lineNumber + 1)

RECURSIVE ImagesFrom(_, _)
ImagesFrom(doc, lineNumber) ==
  IF lineNumber > Len(doc) THEN <<>>
  ELSE MarkdownImages(doc[lineNumber].toks, lineNumber, 1)
         \o HtmlImages(doc[lineNumber].toks, lineNumber, 1)
         \o ImagesFrom(doc, lineNumber + 1)

\* if (!markdown) return []: the empty document has no match either
extractImageUrls(doc) == ImagesFrom(doc, 1)

\* three backticks at index i
FenceAt(s, i) == i + 2 <= Len(s) /\ s[i] = "backtick" /\ s[i + 1] = "backtick" /\ s[i + 2] = "backtick"

\* no newline from index i to index j
OneLine(s, i, j) == \A n \in i..j : s[n] # "\n"

RECURSIVE StripCodeBlocks(_)
\* replace(<three backticks to the next three backticks>, '')
StripCodeBlocks(s) ==
  LET starts == {i \in 1..Len(s) : FenceAt(s, i) /\ \E e \in (i + 3)..Len(s) : FenceAt(s, e)}
  IN IF starts = {} THEN s
     ELSE LET i == Min(starts)
              e == Min({n \in (i + 3)..Len(s) : FenceAt(s, n)})
          IN SubSeq(s, 1, i - 1) \o StripCodeBlocks(SubSeq(s, e + 3, Len(s)))

RECURSIVE StripInlineCode(_)
\* replace(<a backtick, one character or more, the next backtick>, '')
StripInlineCode(s) ==
  LET starts == {i \in 1..Len(s) : s[i] = "backtick" /\ IndexOf(s, "backtick", i + 1) >= i + 2}
  IN IF starts = {} THEN s
     ELSE LET i == Min(starts)
          IN SubSeq(s, 1, i - 1)
               \o StripInlineCode(SubSeq(s, IndexOf(s, "backtick", i + 1) + 1, Len(s)))

\* where /!\[.*?\]\(.*?\)/ matched at index i ends, 0 when it does not match
ImageEnd(s, i) ==
  LET closers == {j \in (i + 2)..(Len(s) - 1) :
                    /\ s[j] = "]"
                    /\ s[j + 1] = "("
                    /\ OneLine(s, i + 2, j - 1)
                    /\ IndexOf(s, ")", j + 2) # 0
                    /\ OneLine(s, j + 2, IndexOf(s, ")", j + 2))}
  IN IF i + 1 <= Len(s) /\ s[i] = "!" /\ s[i + 1] = "[" /\ closers # {}
     THEN IndexOf(s, ")", Min(closers) + 2)
     ELSE 0

RECURSIVE StripImages(_)
\* replace(/!\[.*?\]\(.*?\)/g, '')
StripImages(s) ==
  LET starts == {i \in 1..Len(s) : ImageEnd(s, i) # 0}
  IN IF starts = {} THEN s
     ELSE LET i == Min(starts)
          IN SubSeq(s, 1, i - 1) \o StripImages(SubSeq(s, ImageEnd(s, i) + 1, Len(s)))

\* where /\[([^\]]*)\]\(.*?\)/ matched at index i ends, 0 when it does not match
LinkEnd(s, i) ==
  LET j == IndexOf(s, "]", i + 1)
      k == IndexOf(s, ")", j + 2)
  IN IF s[i] = "[" /\ j # 0 /\ j + 1 <= Len(s) /\ s[j + 1] = "(" /\ k # 0
        /\ OneLine(s, j + 2, k)
     THEN k
     ELSE 0

RECURSIVE StripLinks(_)
\* replace(/\[([^\]]*)\]\(.*?\)/g, '$1')
StripLinks(s) ==
  LET starts == {i \in 1..Len(s) : LinkEnd(s, i) # 0}
  IN IF starts = {} THEN s
     ELSE LET i == Min(starts)
          IN SubSeq(s, 1, i - 1)
               \o SubSeq(s, i + 1, IndexOf(s, "]", i + 1) - 1)
               \o StripLinks(SubSeq(s, LinkEnd(s, i) + 1, Len(s)))

RECURSIVE StripHtml(_)
\* replace(/<[^>]+>/g, '')
StripHtml(s) ==
  LET starts == {i \in 1..Len(s) : s[i] = "<" /\ IndexOf(s, ">", i + 1) >= i + 2}
  IN IF starts = {} THEN s
     ELSE LET i == Min(starts)
          IN SubSeq(s, 1, i - 1)
               \o StripHtml(SubSeq(s, IndexOf(s, ">", i + 1) + 1, Len(s)))

\* replace(/[#*_~>-]/g, '')
StripFormatting(s) == SelectSeq(s, LAMBDA tok : tok \notin {"#", "*", "_", "~", ">", "-"})

\* trim().split(/\s+/).filter((word) => word.length > 0).length
WordCount(s) ==
  Cardinality({i \in 1..Len(s) :
                 s[i] \notin Whitespace /\ (i = 1 \/ s[i - 1] \in Whitespace)})

\* the least number of words of substantial content
MinWords == 10

\* mutant: ten words are not enough, it takes more than ten
isSubstantialContentStrict(doc) ==
  LET markdown == JoinLines(doc)
      stripped ==
        StripFormatting(StripHtml(StripLinks(StripImages(
          StripInlineCode(StripCodeBlocks(markdown))))))
  IN IF markdown = <<>> \/ Trim(markdown) = <<>> THEN FALSE
     ELSE WordCount(stripped) > MinWords

isSubstantialContent(doc) ==
  LET markdown == JoinLines(doc)
      stripped ==
        StripFormatting(StripHtml(StripLinks(StripImages(
          StripInlineCode(StripCodeBlocks(markdown))))))
  IN IF markdown = <<>> \/ Trim(markdown) = <<>> THEN FALSE
     ELSE WordCount(stripped) >= MinWords

(***************************************************************************)
(* src/content/liquid-tags.ts: detectLiquidTags.  A tag name is a run of   *)
(* word tokens; the letters  end  are always a token of their own.         *)
(***************************************************************************)
TAG_DEFS ==
  [name \in {"embed", "link", "user", "tag", "github", "youtube", "twitter",
             "codepen", "codesandbox", "details", "katex"} |->
     [crossPostSafe |-> FALSE]]

\* tagDef?.crossPostSafe ?? false
CrossPostSafe(tagName) ==
  IF Len(tagName) = 1 /\ tagName[1] \in DOMAIN TAG_DEFS
  THEN TAG_DEFS[tagName[1]].crossPostSafe
  ELSE FALSE

\* the trimmed line starts with three backticks
IsFenceLine(line) == FenceAt(Trim(line.toks), 1)

RECURSIVE FenceRangesFrom(_, _, _, _, _)
\* the loop that fills codeFenceRanges, and the closing of an open fence
FenceRangesFrom(doc, i, charOffset, insideCodeFence, fenceStart) ==
  IF i > Len(doc)
  THEN IF insideCodeFence
       THEN <<[start |-> fenceStart, end |-> Len(JoinLines(doc))]>>
       ELSE <<>>
  ELSE LET next == charOffset + Len(doc[i].toks) + 1
       IN IF ~IsFenceLine(doc[i])
          THEN FenceRangesFrom(doc, i + 1, next, insideCodeFence, fenceStart)
          ELSE IF ~insideCodeFence
          THEN FenceRangesFrom(doc, i + 1, next, TRUE, charOffset)
          ELSE <<[start |-> fenceStart, end |-> charOffset + Len(doc[i].toks)]>>
                 \o FenceRangesFrom(doc, i + 1, next, FALSE, fenceStart)

codeFenceRanges(doc) == FenceRangesFrom(doc, 1, 0, FALSE, -1)

\* mutant: no offset is taken to lie inside a code fence
NeverInsideCodeFence(ranges, offset) == FALSE

isInsideCodeFence(ranges, offset) ==
  \E n \in 1..Len(ranges) : offset >= ranges[n].start /\ offset < ranges[n].end

lineNumberForOffset(markdown, offset) ==
  1 + Cardinality({i \in 1..Len(markdown) : i <= offset /\ markdown[i] = "\n"})

\* the length of the run of word tokens that starts at index n
WordRun(s, n) ==
  LET stops == {j \in n..Len(s) : ~IsWord(s[j])}
  IN (IF stops = {} THEN Len(s) + 1 ELSE Min(stops)) - n

NoTag ==
  [ok |-> FALSE, index |-> 0, last |-> 0, name |-> <<>>, argument |-> <<>>,
   fullMatch |-> <<>>]

\* inlineTagPattern matched at index i: {% name argument %}, the argument on
\* one line
InlineTagAt(s, i) ==
  LET n == SkipSpace(s, i + 1)
      r == WordRun(s, n)
      e == IndexOf(s, "%}", n + r)
  IN IF s[i] = "{%" /\ r >= 1 /\ e # 0
        /\ OneLine(Trim(SubSeq(s, n + r, e - 1)), 1, Len(Trim(SubSeq(s, n + r, e - 1))))
     THEN [ok |-> TRUE, index |-> i - 1, last |-> e,
           name |-> SubSeq(s, n, n + r - 1),
           argument |-> Trim(SubSeq(s, n + r, e - 1)),
           fullMatch |-> SubSeq(s, i, e)]
     ELSE NoTag

\* where {%\s*end<name>\s*%} matched at index c ends, 0 when it does not match
EndTagAt(s, c, name) ==
  LET a == SkipSpace(s, c + 1)
      b == SkipSpace(s, a + Len(name) + 1)
  IN IF s[c] = "{%" /\ a + Len(name) <= Len(s) /\ s[a] = "end"
        /\ SubSeq(s, a + 1, a + Len(name)) = name
        /\ b <= Len(s) /\ s[b] = "%}"
     THEN b
     ELSE 0

\* blockTagPattern matched at index i.  The name is the longest prefix of the
\* word run for which the rest of the pattern matches; the content runs to
\* the first end tag of that name.
BlockTagAt(s, i) ==
  LET n == SkipSpace(s, i + 1)
      r == WordRun(s, n)
      e == IndexOf(s, "%}", n + r)
      Closers(m) == {c \in (e + 1)..Len(s) : EndTagAt(s, c, SubSeq(s, n, n + m - 1)) # 0}
      names == {m \in 1..r :
                  /\ OneLine(Trim(SubSeq(s, n + m, e - 1)), 1,
                             Len(Trim(SubSeq(s, n + m, e - 1))))
                  /\ Closers(m) # {}}
  IN IF s[i] = "{%" /\ r >= 1 /\ e # 0 /\ names # {}
     THEN LET m == Max(names)
              last == EndTagAt(s, Min(Closers(m)), SubSeq(s, n, n + m - 1))
          IN [ok |-> TRUE, index |-> i - 1, last |-> last,
              name |-> SubSeq(s, n, n + m - 1),
              argument |-> Trim(SubSeq(s, n + m, e - 1)),
              fullMatch |-> SubSeq(s, i, last)]
     ELSE NoTag

RECURSIVE BlockMatches(_, _)
\* the exec loop of blockTagPattern
BlockMatches(s, from) ==
  LET starts == {i \in from..Len(s) : BlockTagAt(s, i).ok}
  IN IF starts = {} THEN <<>>
     ELSE LET m == BlockTagAt(s, Min(starts))
          IN <<m>> \o BlockMatches(s, m.last + 1)

RECURSIVE InlineMatches(_, _)
\* the exec loop of inlineTagPattern
InlineMatches(s, from) ==
  LET starts == {i \in from..Len(s) : InlineTagAt(s, i).ok}
  IN IF starts = {} THEN <<>>
     ELSE LET m == InlineTagAt(s, Min(starts))
          IN <<m>> \o InlineMatches(s, m.last + 1)

LiquidTagMatch(markdown, m, hasEndTag) ==
  [tag |-> ToLowerCase(m.name), argument |-> m.argument, fullMatch |-> m.fullMatch,
   lineNumber |-> lineNumberForOffset(markdown, m.index),
   crossPostSafe |-> CrossPostSafe(ToLowerCase(m.name)), hasEndTag |-> hasEndTag]

\* mutant: the tags are left in the order they were pushed
NotSorted(tags, lineNumber) == tags

RECURSIVE SortByLine(_, _)
\* tags.sort((a, b) => a.lineNumber - b.lineNumber), a stable sort: the tags
\* of each line in the order they were pushed, the lines in ascending order
SortByLine(tags, lineNumber) ==
  IF \A n \in 1..Len(tags) : tags[n].lineNumber < lineNumber THEN <<>>
  ELSE SelectSeq(tags, LAMBDA t : t.lineNumber = lineNumber)
         \o SortByLine(tags, lineNumber + 1)

\* the block tags kept: those that do not start inside a code fence
BlockTags(matches, ranges) ==
  SelectSeq(matches, LAMBDA m : ~isInsideCodeFence(ranges, m.index))

\* the match starts inside one of the block tags found
IsPartOfBlock(blocks, m) ==
  \E b \in 1..Len(blocks) :
    m.index >= blocks[b].index /\ m.index < blocks[b].index + Len(blocks[b].fullMatch)

\* the inline tags kept: not inside a code fence, not an end tag, not part of
\* a block tag
InlineTags(matches, ranges, blocks) ==
  SelectSeq(matches,
            LAMBDA m : /\ ~isInsideCodeFence(ranges, m.index)
                       /\ ToLowerCase(m.name)[1] # "end"
                       /\ ~IsPartOfBlock(blocks, m))

\* the tags in the order they are pushed: block tags, then inline tags
PushedTags(markdown, blocks, inlines) ==
  [b \in 1..Len(blocks) |-> LiquidTagMatch(markdown, blocks[b], TRUE)]
    \o [n \in 1..Len(inlines) |-> LiquidTagMatch(markdown, inlines[n], FALSE)]

\* mutant: hasCrossPostUnsafe computed with every in place of some
LiquidTagReportEvery(tags) ==
  [tags |-> tags, hasCrossPostUnsafe |-> \A n \in 1..Len(tags) : ~tags[n].crossPostSafe]

LiquidTagReport(tags) ==
  [tags |-> tags, hasCrossPostUnsafe |-> \E n \in 1..Len(tags) : ~tags[n].crossPostSafe]

\* the two passes over the document and the sort
DetectIn(markdown, ranges, blocks) ==
  LiquidTagReport(
    SortByLine(
      PushedTags(markdown, blocks,
                 InlineTags(InlineMatches(markdown, 1), ranges, blocks)),
      1))

detectLiquidTags(doc) ==
  IF doc = EmptyString THEN LiquidTagReport(<<>>)
  ELSE DetectIn(JoinLines(doc), codeFenceRanges(doc),
                BlockTags(BlockMatches(JoinLines(doc), 1), codeFenceRanges(doc)))

(***************************************************************************)
(* src/content/liquid-tags.ts: convertLiquidTag and stripLiquidTags.  A    *)
(* call returns a string or raises; both outcomes are kept in a record.    *)
(***************************************************************************)
\* the lower-case names every object inherits from Object.prototype: TAG_DEFS
\* looked up under one of them yields a value that is no tag definition
ObjectPrototype == {"constructor", "__proto__"}

\* what TAG_DEFS[tagName] is: an entry of the table, an inherited property,
\* or undefined
TagDefKind(tagName) ==
  IF Len(tagName) # 1 THEN "undefined"
  ELSE IF tagName[1] \in DOMAIN TAG_DEFS THEN "own"
  ELSE IF tagName[1] \in ObjectPrototype THEN "inherited"
  ELSE "undefined"

\* the convert function of the entry  name ; content is a JavaScript value
convert(name, arg, content) ==
  LET inner == IF content.t \in {"undefined", "null"} THEN <<>> ELSE content.s
  IN CASE name \in {"embed", "codepen"} -> arg
       [] name = "link" -> <<"[">> \o arg \o <<"]", "(">> \o arg \o <<")">>
       [] name = "user" -> <<"@">> \o arg
       [] name = "tag" -> <<"#">> \o arg
       [] name = "github" ->
            <<"[">> \o arg \o <<"]", "(", "https://github.com/">> \o arg \o <<")">>
       [] name = "youtube" -> <<"https://www.youtube.com/watch?v=">> \o arg
       [] name = "twitter" -> <<"https://twitter.com/i/status/">> \o arg
       [] name = "codesandbox" -> <<"https://codesandbox.io/s/">> \o arg
       [] name = "details" ->
            <<"<details>", "\n", "<summary>">> \o arg \o <<"</summary>", "\n", "\n">>
              \o inner \o <<"\n", "</details>">>
       [] name = "katex" -> <<"$$", "\n">> \o inner \o <<"\n", "$$">>

\* the call returned the string
Returned(text) == [threw |-> FALSE, text |-> text]

\* tagDef.convert is not a function: the call raised a TypeError
ConvertThrew == [threw |-> TRUE, text |-> <<>>]

convertLiquidTag(match, content) ==
  CASE TagDefKind(match.tag) = "undefined" -> Returned(match.argument)
    [] TagDefKind(match.tag) = "inherited" -> ConvertThrew
    [] OTHER -> Returned(convert(match.tag[1], match.argument, content))

RECURSIVE SplitLines(_)
\* text.split('\n')
SplitLines(text) ==
  IF IndexOf(text, "\n", 1) = 0 THEN <<TextLine(text)>>
  ELSE <<TextLine(SubSeq(text, 1, IndexOf(text, "\n", 1) - 1))>>
         \o SplitLines(SubSeq(text, IndexOf(text, "\n", 1) + 1, Len(text)))

getCodeFenceRanges(text) == FenceRangesFrom(SplitLines(text), 1, 0, FALSE, -1)

\* the third group of blockTagPattern: what lies between the opening marker
\* and the end marker
BlockContent(m) ==
  SubSeq(m.fullMatch, IndexOf(m.fullMatch, "%}", 1) + 1,
         Max({i \in 1..Len(m.fullMatch) : m.fullMatch[i] = "{%"}) - 1)

\* the callback of the first replace
BlockReplacement(m, ranges) ==
  IF isInsideCodeFence(ranges, m.index) THEN Returned(m.fullMatch)
  ELSE CASE TagDefKind(ToLowerCase(m.name)) = "undefined" ->
              Returned(IF Trim(BlockContent(m)) # <<>> THEN Trim(BlockContent(m))
                       ELSE m.argument)
         [] TagDefKind(ToLowerCase(m.name)) = "inherited" -> ConvertThrew
         [] OTHER -> Returned(convert(ToLowerCase(m.name)[1], m.argument,
                                      Str(Trim(BlockContent(m)))))

\* the callback of the second replace
InlineReplacement(m, ranges) ==
  IF ToLowerCase(m.name)[1] = "end" THEN Returned(m.fullMatch)
  ELSE IF isInsideCodeFence(ranges, m.index) THEN Returned(m.fullMatch)
  ELSE CASE TagDefKind(ToLowerCase(m.name)) = "undefined" -> Returned(m.argument)
         [] TagDefKind(ToLowerCase(m.name)) = "inherited" -> ConvertThrew
         [] OTHER -> Returned(convert(ToLowerCase(m.name)[1], m.argument, Undefined))

RECURSIVE Splice(_, _, _, _, _)
\* the string with each match from the k-th on replaced, read from index from
Splice(s, matches, reps, k, from) ==
  IF k > Len(matches) THEN SubSeq(s, from, Len(s))
  ELSE SubSeq(s, from, matches[k].index) \o reps[k].text
         \o Splice(s, matches, reps, k + 1, matches[k].last + 1)

\* String.prototype.replace with a callback: it raises when a callback does
Replaced(s, matches, reps) ==
  IF \E k \in 1..Len(reps) : reps[k].threw THEN ConvertThrew
  ELSE Returned(Splice(s, matches, reps, 1, 1))

ReplaceBlocks(s, matches, ranges) ==
  Replaced(s, matches, [k \in 1..Len(matches) |-> BlockReplacement(matches[k], ranges)])

ReplaceInlines(s, matches, ranges) ==
  Replaced(s, matches, [k \in 1..Len(matches) |-> InlineReplacement(matches[k], ranges)])

\* the second replace, on the result of the first
StripInlines(blocksDone) ==
  IF blocksDone.threw THEN ConvertThrew
  ELSE ReplaceInlines(blocksDone.text, InlineMatches(blocksDone.text, 1),
                      getCodeFenceRanges(blocksDone.text))

stripLiquidTags(doc) ==
  IF doc = EmptyString THEN Returned(<<>>)
  ELSE StripInlines(ReplaceBlocks(JoinLines(doc), BlockMatches(JoinLines(doc), 1),
                                  getCodeFenceRanges(JoinLines(doc))))

(***************************************************************************)
(* src/content/validator.ts                                                *)
(***************************************************************************)
\* the value the object holds under the key, undefined when it has none
Lookup(object, key) == IF key \in DOMAIN object THEN object[key] ELSE Undefined

\* the truth value JavaScript gives a value
Truthy(v) ==
  CASE v.t \in {"undefined", "null"} -> FALSE
    [] v.t = "string" -> v.s # <<>>
    [] v.t = "boolean" -> v.s = <<"true">>
    [] v.t = "number" -> v.s # <<"0">>
    [] OTHER -> TRUE

RECURSIVE Split(_)
\* tags.split(',')
Split(s) ==
  IF IndexOf(s, ",", 1) = 0 THEN <<s>>
  ELSE <<SubSeq(s, 1, IndexOf(s, ",", 1) - 1)>>
         \o Split(SubSeq(s, IndexOf(s, ",", 1) + 1, Len(s)))

\* mutant: the empty entries of a comma-separated string are kept
normalizeTagListKeepEmpty(tags) ==
  IF tags.t = "array"
  THEN [i \in 1..Len(tags.l) |-> ToLowerCase(Trim(tags.l[i]))]
  ELSE [i \in 1..Len(Split(tags.s)) |-> ToLowerCase(Trim(Split(tags.s)[i]))]

normalizeTagList(tags) ==
  IF tags.t = "array"
  THEN [i \in 1..Len(tags.l) |-> ToLowerCase(Trim(tags.l[i]))]
  ELSE SelectSeq([i \in 1..Len(Split(tags.s)) |-> ToLowerCase(Trim(Split(tags.s)[i]))],
                 LAMBDA t : t # <<>>)

\* the most tags an article may carry
MaxTags == 4

\* mutant: every entry that is not empty passes
TagIsValidLoose(tag) == tag # <<>>

\* /^[a-z0-9_]+$/.test(tag)
TagIsValid(tag) ==
  tag # <<>> /\ \A i \in 1..Len(tag) : IsWord(tag[i]) /\ LowerToken(tag[i]) = tag[i]

\* a validation issue: severity, code, and what its message is built from
Issue(severity, code, kind, key, text, other, n) ==
  [severity |-> severity, code |-> code, kind |-> kind, key |-> key, text |-> text,
   other |-> other, n |-> n]

\* !params.title && !params.body_markdown
PresenceIssues(given, doc, params) ==
  IF ~Truthy(Arg(params, "title")) /\ ~(given /\ doc # EmptyString)
  THEN <<Issue("error", "validation_failed", "title or body_markdown", "", <<>>, <<>>, 0)>>
  ELSE <<>>

TagIssues(params) ==
  LET tagList == normalizeTagList(Arg(params, "tags"))
      invalid == SelectSeq(tagList, LAMBDA tag : ~TagIsValid(tag))
  IN IF ~Truthy(Arg(params, "tags")) THEN <<>>
     ELSE (IF Len(tagList) > MaxTags
           THEN <<Issue("error", "validation_failed", "too many tags", "", <<>>, <<>>,
                        Len(tagList))>>
           ELSE <<>>)
          \o [i \in 1..Len(invalid) |->
                Issue("error", "validation_failed", "invalid tag", "", invalid[i], <<>>, 0)]

CoverImageIssues(params) ==
  IF Truthy(Arg(params, "main_image")) /\ ~isAbsoluteUrl(Arg(params, "main_image").s)
  THEN <<Issue("error", "image_not_absolute", "cover image", "",
               Arg(params, "main_image").s, <<>>, 0)>>
  ELSE <<>>

BodyImageIssues(given, doc) ==
  LET relative == SelectSeq(extractImageUrls(doc), LAMBDA image : ~image.isAbsolute)
  IN IF ~(given /\ doc # EmptyString) THEN <<>>
     ELSE [i \in 1..Len(relative) |->
             Issue("error", "image_not_absolute", "body image", "", relative[i].url,
                   <<>>, relative[i].lineNumber)]

\* the entries of jsonFields, in the order they are assigned
JsonFields(params) ==
  SelectSeq(<<[key |-> "title", value |-> Arg(params, "title")],
              [key |-> "tags", value |-> Arg(params, "tags")],
              [key |-> "description", value |-> Arg(params, "description")],
              [key |-> "main_image", value |-> Arg(params, "main_image")]>>,
            LAMBDA e : e.value # Undefined)

\* extractedValues[frontMatterKey] ?? extractedValues[field]
FrontMatterValueOf(extracted, field) ==
  LET frontMatterKey == IF field = "main_image" THEN "cover_image" ELSE field
  IN IF Lookup(extracted, frontMatterKey).t \in {"undefined", "null"}
     THEN Lookup(extracted, field)
     ELSE Lookup(extracted, frontMatterKey)

\* the test of one field of jsonFields
FieldConflicts(extracted, entry) ==
  /\ FrontMatterValueOf(extracted, entry.key) # Undefined
  /\ JsString(FrontMatterValueOf(extracted, entry.key)) # JsString(entry.value)

FrontMatterIssues(given, doc, params) ==
  LET parsed == parseFrontMatter(doc)
      found == SelectSeq(JsonFields(params),
                         LAMBDA e : FieldConflicts(parsed.extractedValues, e))
  IN IF ~(given /\ doc # EmptyString) \/ ~parsed.hasFrontMatter THEN <<>>
     ELSE [i \in 1..Len(found) |->
             Issue("warning", "front_matter_conflict", "conflict",
                   IF found[i].key = "main_image" THEN "cover_image" ELSE found[i].key,
                   JsString(FrontMatterValueOf(parsed.extractedValues, found[i].key)),
                   JsString(found[i].value), 0)]

LiquidIssues(given, doc) ==
  LET tags == detectLiquidTags(doc).tags
  IN IF ~(given /\ doc # EmptyString) THEN <<>>
     ELSE [i \in 1..Len(tags) |->
             Issue("info", "liquid_tag_detected",
                   IF tags[i].crossPostSafe THEN "liquid tag"
                   ELSE "liquid tag (not cross-post safe)",
                   "", tags[i].tag, tags[i].argument, tags[i].lineNumber)]

QualityIssues(given, doc) ==
  IF given /\ doc # EmptyString /\ ~isSubstantialContent(doc)
  THEN <<Issue("warning", "validation_failed", "thin content", "", <<>>, <<>>, 0)>>
  ELSE <<>>

\* issues.some((issue) => issue.severity === 'error')
HasErrors(found) == \E i \in 1..Len(found) : found[i].severity = "error"

(***************************************************************************)
(* The inputs the model draws from.                                        *)
(***************************************************************************)
A == <<"a">>
B == <<"b">>
\* the string "a, b"
AB == <<"a", ",", " ", "b">>

\* the lines a front-matter block is made of
BlockLines ==
  <<KV("title", Str(A)),
    KV("tags", List(<<A, B>>)),
    KV("tags", Str(AB)),
    KV("tags", Null),
    KV("cover_image", Str(A)),
    KV("main_image", Str(B)),
    KV("organization_id", Num(<<"1">>)),
    KV("published", Bool(TRUE)),
    BadLine,
    WordLine>>

\* Blocks of at most MaxBlock lines.  A YAML mapping is looked up by key only,
\* so the lines of a block are taken in one order.
Blocks ==
  UNION {
    {[i \in 1..n |-> BlockLines[f[i]]] :
       f \in {g \in [1..n -> 1..Len(BlockLines)] :
                \A i \in 1..(n - 1) : g[i] <= g[i + 1]}} :
    n \in 0..MaxBlock}

\* what may follow the block: nothing, or text holding a horizontal rule
Tails == {<<>>, <<WordLine, Delim, WordLine>>}

\* documents that open with the delimiter line
DelimitedBodies ==
  {<<Delim>> \o b \o c \o t : b \in Blocks, c \in {<<>>, <<Delim>>}, t \in Tails}

\* documents that do not
PlainBodies ==
  {EmptyString,
   <<SpaceLine>>,
   <<WordLine>>,
   <<WordLine, Delim, KV("title", Str(A)), Delim, WordLine>>,
   <<BlankLine, Delim, KV("title", Str(A)), Delim>>}

Bodies == DelimitedBodies \cup PlainBodies

\* the explicit entries: a key with one of the values it may be given
Entries ==
  {[key |-> "title", value |-> Str(B)],
   [key |-> "tags", value |-> Str(AB)],
   [key |-> "main_image", value |-> Str(A)],
   [key |-> "main_image", value |-> Null],
   [key |-> "main_image", value |-> Undefined],
   [key |-> "organization_id", value |-> Num(<<"2">>)]}

\* records of at most MaxParams entries, no key twice, in every order
ParamRecords ==
  UNION {
    {p \in [1..n -> Entries] :
       \A i, j \in 1..n : i # j => p[i].key # p[j].key} :
    n \in 0..MaxParams}

(***************************************************************************)
(* The inputs validateArticle is called on.                                *)
(***************************************************************************)
\* ![](./p)
RelativeImage == TextLine(<<"!", "[", "]", "(", "./", "p", ")">>)
\* <img src="http://p">
AbsoluteImage == TextLine(<<"<", "img", " ", "src=", "\"", "http://", "p", "\"", ">">>)
\* {% youtube a %}
LiquidLine == TextLine(<<"{%", " ", "youtube", " ", "a", " ", "%}">>)
\* ten words
LongLine ==
  TextLine(<<"w", " ", "w", " ", "w", " ", "w", " ", "w", " ", "w", " ", "w", " ",
             "w", " ", "w", " ", "w">>)

ContentLines == <<RelativeImage, AbsoluteImage, LiquidLine, LongLine, WordLine>>

\* the body after its front matter: at most MaxContent lines.  No check looks
\* across the lines drawn here, so they are taken in one order.
Contents ==
  UNION {
    {[i \in 1..n |-> ContentLines[f[i]]] :
       f \in {g \in [1..n -> 1..Len(ContentLines)] :
                \A i \in 1..(n - 1) : g[i] <= g[i + 1]}} :
    n \in 0..MaxContent}

\* how the body opens: with no front matter, with a block, with a block YAML
\* rejects
Openings ==
  {<<>>,
   <<Delim, KV("title", Str(A)), KV("tags", List(<<A, B>>)), Delim>>,
   <<Delim, KV("tags", Str(AB)), KV("cover_image", Str(A)), KV("description", Str(A)),
     Delim>>,
   <<Delim, BadLine, Delim>>}

ArticleBodies ==
  {IF o \o c = <<>> THEN EmptyString ELSE o \o c : o \in Openings, c \in Contents}

\* the string "A,b,a,b,a-b": five tags, the last one not a valid tag
FiveTags == <<"A", ",", "b", ",", "a", ",", "b", ",", "a", "-", "b">>

\* the string "http://p"
AbsoluteUrl == <<"http://", "p">>

\* the string "HTTP://p"
UpperCaseUrl == <<"HTTP://", "p">>

\* the values each parameter of validateArticle is given; undefined: not given
ValidateValues ==
  [title |-> {Undefined, Str(B)},
   tags |-> {Undefined, Str(AB), List(<<A, B>>), Str(FiveTags)},
   description |-> {Undefined, Str(B)},
   main_image |-> {Undefined, Str(A), Str(AbsoluteUrl), Str(UpperCaseUrl)}]

ValidateParams ==
  {SelectSeq(<<[key |-> "title", value |-> t], [key |-> "tags", value |-> g],
               [key |-> "description", value |-> d],
               [key |-> "main_image", value |-> m]>>,
             LAMBDA e : e.value # Undefined) :
     t \in ValidateValues.title, g \in ValidateValues.tags,
     d \in ValidateValues.description, m \in ValidateValues.main_image}

(***************************************************************************)
(* The bodies and arguments handleCreateArticle is called on.              *)
(***************************************************************************)
HandlerLines ==
  <<KV("title", Str(A)), KV("cover_image", Str(A)), KV("published", Bool(TRUE)),
    BadLine>>

HandlerBlocks ==
  UNION {
    {[i \in 1..n |-> HandlerLines[f[i]]] :
       f \in {g \in [1..n -> 1..Len(HandlerLines)] :
                \A i \in 1..(n - 1) : g[i] <= g[i + 1]}} :
    n \in 0..MaxBlock}

HandlerBodies ==
  {<<Delim>> \o b \o <<Delim, WordLine>> : b \in HandlerBlocks}
    \cup {EmptyString, <<WordLine>>}

(***************************************************************************)
(* The tags validateArticle is called on.                                  *)
(***************************************************************************)
\* the entries of a tags value: " A", "a-b" and the empty entry
TagEntries == {<<" ", "A">>, <<"a", "-", "b">>, <<>>}

TagLists == UNION {[1..n -> TagEntries] : n \in 0..MaxEntries}

\* each list as an array, and as a string with a comma between its entries
TagInputs ==
  {List(l) : l \in TagLists} \cup {Str(Join(l, <<",">>)) : l \in TagLists}

TagParams == {<<>>} \cup {<<[key |-> "tags", value |-> v]>> : v \in TagInputs}

(***************************************************************************)
(* The documents the liquid-tag functions are called on.                   *)
(***************************************************************************)
\* {% name arg %}
Marker(name, arg) ==
  <<"{%", " ">> \o name \o (IF arg = <<>> THEN <<>> ELSE <<" ">> \o arg) \o <<" ", "%}">>

FenceLine == TextLine(<<"backtick", "backtick", "backtick">>)

LiquidLines ==
  {TextLine(Marker(<<"embed">>, <<"x">>)),
   TextLine(Marker(<<"foo">>, <<"x">>)),
   TextLine(Marker(<<"end", "foo">>, <<>>)),
   TextLine(Marker(<<"details">>, <<"s">>)),
   TextLine(Marker(<<"end", "details">>, <<>>)),
   TextLine(Marker(<<"constructor">>, <<>>)),
   \* {% embed {% link x %} %}
   TextLine(Marker(<<"embed">>, Marker(<<"link">>, <<"x">>))),
   \* {% endendfoo %}
   TextLine(Marker(<<"end", "end", "foo">>, <<>>)),
   \* two markers on one line
   TextLine(Marker(<<"embed">>, <<"x">>) \o Marker(<<"foo">>, <<"x">>)),
   FenceLine,
   WordLine}

\* the empty string, and every document of at most MaxLines of these lines
LiquidBodies ==
  {EmptyString} \cup UNION {[1..n -> LiquidLines] : n \in 1..MaxLines}

\* the names of the block tags of the documents below
BlockNames == {<<"foo">>, <<"details">>}

\* a block of the tag, on one line and on three
BlockOf(name) ==
  {<<TextLine(Marker(name, <<"x">>) \o <<"w">> \o Marker(<<"end">> \o name, <<>>))>>,
   <<TextLine(Marker(name, <<"x">>)), WordLine, TextLine(Marker(<<"end">> \o name, <<>>))>>}

\* a fenced region of one line: a word, or the opening marker of a block tag
FencedLines == {<<FenceLine, WordLine, FenceLine>>}
                 \cup {<<FenceLine, TextLine(Marker(name, <<"x">>)), FenceLine>> : name \in BlockNames}

\* a fenced region, then a block that lies wholly after it
FencedThenBlock ==
  {fenced \o block : fenced \in FencedLines, block \in UNION {BlockOf(name) : name \in BlockNames}}

\* the content a caller of convertLiquidTag passes: none, or the string "c"
MatchContents == {Undefined, Str(<<"c">>)}

(***************************************************************************)
(* src/client/rate-limiter.ts.  Time is the reading of Date.now(), counted *)
(* in ticks; the window and the bucket sizes are scaled down to a few      *)
(* ticks and tokens, the backoff delays keep their values in milliseconds. *)
(***************************************************************************)
BucketNames == {"create", "update"}

\* the callers that may be inside acquire at once
Callers == 1..NumCallers

Bucket(maxTokens, windowMs, timestamps) ==
  [maxTokens |-> maxTokens, windowMs |-> windowMs, timestamps |-> timestamps]

\* constructor(): this.buckets
NewBuckets ==
  [create |-> Bucket(CreateTokens, WindowTicks, <<>>),
   update |-> Bucket(UpdateTokens, WindowTicks, <<>>)]

\* private backoffMs = 3000
InitialBackoffMs == 3000

\* private maxBackoffMs = 30000
maxBackoffMs == 30000

\* bucket.timestamps.filter((timestamp) => now - timestamp < bucket.windowMs)
Prune(bucket, now) ==
  SelectSeq(bucket.timestamps, LAMBDA timestamp : now - timestamp < bucket.windowMs)

\* oldestTimestamp + bucket.windowMs - now + 1
WaitTime(timestamps, windowMs, now) == timestamps[1] + windowMs - now + 1

\* a caller outside acquire
Outside == [pc |-> "idle", bucket |-> "", wake |-> 0]

\* a caller suspended at await new Promise(setTimeout(resolve, waitTime))
Waiting(bucketName, wake) == [pc |-> "waiting", bucket |-> bucketName, wake |-> wake]

\* bucket.timestamps.push(Date.now()), and the record of the grant
PushTimestamp(bucketName, timestamps) ==
  /\ buckets' = [buckets EXCEPT ![bucketName].timestamps = Append(timestamps, clock)]
  /\ grants' = [grants EXCEPT ![bucketName] = Append(@, clock)]

\* acquire(bucketName) up to its await, or to its end when it does not wait
acquire(c, bucketName) ==
  LET now == clock
      pruned == Prune(buckets[bucketName], now)
      full == Len(pruned) >= buckets[bucketName].maxTokens
  IN /\ callers[c] = Outside
     /\ Len(grants[bucketName]) < MaxGrants
     /\ IF full /\ WaitTime(pruned, buckets[bucketName].windowMs, now) > 0
        THEN /\ buckets' = [buckets EXCEPT ![bucketName].timestamps = pruned]
             /\ callers' =
                  [callers EXCEPT
                     ![c] = Waiting(bucketName,
                                    now + WaitTime(pruned, buckets[bucketName].windowMs, now))]
             /\ UNCHANGED grants
        ELSE /\ PushTimestamp(bucketName, pruned)
             /\ UNCHANGED callers

\* acquire from the firing of its timer to its end; a timer fires at its time
\* or later
AfterWait(c) ==
  LET afterWait == clock
      bucketName == callers[c].bucket
  IN /\ callers[c].pc = "waiting"
     /\ clock >= callers[c].wake
     /\ PushTimestamp(bucketName, Prune(buckets[bucketName], afterWait))
     /\ callers' = [callers EXCEPT ![c] = Outside]

\* mutant: the delay doubles without a ceiling
DoubledWithoutCeiling(ms) == ms * 2

\* Math.min(this.backoffMs * 2, this.maxBackoffMs)
NextBackoff(ms) == Min({ms * 2, maxBackoffMs})

\* recordRateLimitHit(): the delay returned is kept in lastDelay
recordRateLimitHit ==
  /\ lastDelay' = backoffMs
  /\ backoffMs' = NextBackoff(backoffMs)
  /\ hits' = hits + 1

\* resetBackoff()
resetBackoff ==
  /\ backoffMs' = InitialBackoffMs
  /\ hits' = 0
  /\ UNCHANGED lastDelay

(***************************************************************************)
(* src/client/forem.ts: ForemClient.request.  A call acquires a token when *)
(* it is given a bucket, then fetches up to MAX_RETRIES times; what fetch  *)
(* answers is drawn among a rejected promise and the HTTP statuses below.  *)
(* The body of a response is left out: only the kind of outcome is kept.   *)
(***************************************************************************)
MAX_RETRIES == 3

\* the HTTP statuses a response carries
Statuses == {200, 204, 302, 401, 404, 418, 429, 500}

\* the promise of fetch is rejected: no response, written as status 0
Rejected == 0

\* what await fetch(url, fetchOptions) gives
Answers == {Rejected} \cup Statuses

\* response.ok
Ok(status) == status \in 200..299

\* src/utils/errors.ts: the code of mapHttpStatusToError(status, body)
mapHttpStatusToError(status) ==
  CASE status = 401 -> "auth_failed"
    [] status = 403 -> "forbidden"
    [] status = 404 -> "not_found"
    [] status = 422 -> "invalid_request"
    [] status = 429 -> "rate_limited"
    [] OTHER -> IF status >= 400 /\ status < 500 THEN "invalid_request" ELSE "api_error"

NoOutcome == [threw |-> FALSE, code |-> "none"]
Threw(code) == [threw |-> TRUE, code |-> code]
ReturnedBody == [threw |-> FALSE, code |-> "body"]
ReturnedUndefined == [threw |-> FALSE, code |-> "undefined"]

\* mutant: a server error is retried like a 429
IsRateLimitedOrServerError(status) == status \in {429, 500}

\* response.status === 429
IsRateLimited(status) == status = 429

\* what an answer other than a retried 429 makes of the call
Settled(answer) ==
  CASE answer = Rejected -> Threw("api_error")
    [] IsRateLimited(answer) -> Threw("rate_limited")
    [] answer = 204 -> ReturnedUndefined
    [] Ok(answer) -> ReturnedBody
    [] OTHER -> Threw(mapHttpStatusToError(answer))

(***************************************************************************)
(* src/client/forem.ts: paginateAll.  What fetchPage resolves to for each  *)
(* page is drawn beforehand: a batch of some length, or a rejection.       *)
(***************************************************************************)
\* fetchPage rejects for the page, written as a batch of length -1
RejectedPage == 0 - 1

\* the items of a page: the page and the place of the item in its batch
Batch(page, length) == [i \in 1..length |-> <<page, i>>]

\* mutant: a full batch ends the loop too
ShortOrFull(batch, perPage) == Len(batch) <= perPage

\* batch.length < perPage
IsShort(batch, perPage) == Len(batch) < perPage

\* the calls paginateAll can be given
PageCalls ==
  {[pc |-> "loop", perPage |-> perPage, batches |-> batches, page |-> 1,
    results |-> <<>>, calls |-> <<>>] :
     perPage \in 1..MaxPerPage,
     batches \in UNION {[1..n -> RejectedPage..(MaxPerPage + 1)] : n \in 1..MaxPages}}

(***************************************************************************)
(* Calls not yet made.                                                     *)
(***************************************************************************)
NoRequest ==
  [pc |-> "idle", bucket |-> "none", attempt |-> 0, answers |-> <<>>,
   outcome |-> NoOutcome, calls |-> 0]

NoPages ==
  [pc |-> "idle", perPage |-> 1, batches |-> <<>>, page |-> 1, results |-> <<>>,
   calls |-> <<>>]

(***************************************************************************)
(* The state machines: one call of one operation on the inputs drawn.      *)
(***************************************************************************)
NoParse == NoFrontMatter(EmptyString)
NoMerge == Unmerged(EmptyString, <<>>)
NoResult == [valid |-> FALSE, issues |-> <<>>]
NoReport == LiquidTagReport(<<>>)
NoText == Returned(<<>>)

\* nothing has run
Idle ==
  /\ fmResult = NoParse
  /\ mergeResult = NoMerge
  /\ createCall = NoCall
  /\ issues = <<>>
  /\ valResult = NoResult
  /\ liquidReport = NoReport
  /\ convertResult = NoText
  /\ stripResult = NoText
  /\ images = <<>>
  /\ updateCall = NoUpdate
  /\ buckets = NewBuckets
  /\ backoffMs = InitialBackoffMs
  /\ clock = 0
  /\ callers = [c \in Callers |-> Outside]
  /\ grants = [bucketName \in BucketNames |-> <<>>]
  /\ hits = 0
  /\ lastDelay = 0
  /\ req = NoRequest
  /\ pager = NoPages

Init ==
  /\ bodyGiven \in BOOLEAN
  /\ body \in (IF bodyGiven THEN Bodies ELSE {EmptyString})
  /\ jsonParams \in ParamRecords
  /\ pc = "start"
  /\ Idle

ParseFrontMatter ==
  /\ pc = "start"
  /\ bodyGiven
  /\ fmResult' = parseFrontMatter(body)
  /\ pc' = "parsed"
  /\ UNCHANGED <<bodyGiven, body, jsonParams, mergeResult, createCall, issues, valResult,
                 liquidVars,
                 otherVars>>

MergeAndNormalize ==
  /\ pc = "start"
  /\ mergeResult' = mergeAndNormalize(bodyGiven, body, jsonParams)
  /\ pc' = "merged"
  /\ UNCHANGED <<bodyGiven, body, jsonParams, fmResult, createCall, issues, valResult,
                 liquidVars,
                 otherVars>>

Next == ParseFrontMatter \/ MergeAndNormalize

Spec == Init /\ [][Next]_vars

\* the handlers of src/tools/articles.ts, beside the functions they rely on
InitArticles ==
  /\ bodyGiven \in BOOLEAN
  /\ body \in (IF bodyGiven THEN HandlerBodies ELSE {EmptyString})
  /\ jsonParams \in ParamRecords
  /\ pc = "start"
  /\ Idle

HandleCreateArticle ==
  /\ pc = "start"
  /\ \E published \in {Undefined, Bool(TRUE), Bool(FALSE)}, defaultPublished \in BOOLEAN :
       createCall' =
         handleCreateArticle(bodyGiven, body, jsonParams, published, defaultPublished)
  /\ pc' = "created"
  /\ UNCHANGED <<bodyGiven, body, jsonParams, fmResult, mergeResult, issues, valResult,
                 liquidVars,
                 otherVars>>

HandleUpdateArticle ==
  /\ pc = "start"
  /\ \E published \in {Undefined, Bool(TRUE), Bool(FALSE)} :
       updateCall' = handleUpdateArticle(bodyGiven, body, jsonParams, published)
  /\ pc' = "updated"
  /\ UNCHANGED <<bodyGiven, body, jsonParams, fmResult, mergeResult, createCall, issues,
                 valResult, liquidVars, images, limiterVars, clientVars>>

NextArticles ==
  ParseFrontMatter \/ MergeAndNormalize \/ HandleCreateArticle \/ HandleUpdateArticle

SpecArticles == InitArticles /\ [][NextArticles]_vars

\* validateArticle, one action for each of its checks in the order of the code
InitValidate ==
  /\ bodyGiven \in BOOLEAN
  /\ body \in (IF bodyGiven THEN ArticleBodies ELSE {EmptyString})
  /\ jsonParams \in ValidateParams
  /\ pc = "presence"
  /\ Idle

\* mutant: the function returns as soon as a check has pushed an error
PushOrReturn(found, next) ==
  /\ issues' = issues \o found
  /\ pc' = IF HasErrors(found) THEN "return" ELSE next
  /\ UNCHANGED <<bodyGiven, body, jsonParams, fmResult, mergeResult, createCall, valResult,
                 liquidVars,
                 otherVars>>

\* a check pushes its issues and control falls through to the next check
Push(found, next) ==
  /\ issues' = issues \o found
  /\ pc' = next
  /\ UNCHANGED <<bodyGiven, body, jsonParams, fmResult, mergeResult, createCall, valResult,
                 liquidVars,
                 otherVars>>

CheckPresence == pc = "presence" /\ Push(PresenceIssues(bodyGiven, body, jsonParams), "tags")

CheckTags == pc = "tags" /\ Push(TagIssues(jsonParams), "cover image")

CheckCoverImage == pc = "cover image" /\ Push(CoverImageIssues(jsonParams), "body images")

CheckBodyImages ==
  pc = "body images" /\ Push(BodyImageIssues(bodyGiven, body), "front matter")

CheckFrontMatter ==
  pc = "front matter" /\ Push(FrontMatterIssues(bodyGiven, body, jsonParams), "liquid tags")

CheckLiquidTags == pc = "liquid tags" /\ Push(LiquidIssues(bodyGiven, body), "quality")

CheckQuality == pc = "quality" /\ Push(QualityIssues(bodyGiven, body), "return")

\* mutant: an article with any issue at all is not valid
ValidIfNoIssues(found) == found = <<>>

\* valid: !hasErrors
Valid(found) == ~HasErrors(found)

Return ==
  /\ pc = "return"
  /\ valResult' = [valid |-> Valid(issues), issues |-> issues]
  /\ pc' = "validated"
  /\ UNCHANGED <<bodyGiven, body, jsonParams, fmResult, mergeResult, createCall, issues,
                 liquidVars,
                 otherVars>>

NextValidate ==
  \/ CheckPresence
  \/ CheckTags
  \/ CheckCoverImage
  \/ CheckBodyImages
  \/ CheckFrontMatter
  \/ CheckLiquidTags
  \/ CheckQuality
  \/ Return

SpecValidate == InitValidate /\ [][NextValidate]_vars

\* validateArticle, called with a tags parameter of every shape
InitTags ==
  /\ bodyGiven \in BOOLEAN
  /\ body = (IF bodyGiven THEN <<WordLine>> ELSE EmptyString)
  /\ jsonParams \in TagParams
  /\ pc = "presence"
  /\ Idle

SpecTags == InitTags /\ [][NextValidate]_vars

\* the functions of src/content/liquid-tags.ts.  detectLiquidTags is called on
\* the document, or on what stripLiquidTags made of it.
InitLiquid ==
  /\ bodyGiven = TRUE
  /\ body \in LiquidBodies \cup FencedThenBlock
  /\ jsonParams = <<>>
  /\ pc = "start"
  /\ Idle

DetectLiquidTags ==
  /\ pc \in {"start", "stripped"}
  /\ pc = "stripped" => ~stripResult.threw
  /\ liquidReport' =
       detectLiquidTags(IF pc = "stripped" THEN SplitLines(stripResult.text) ELSE body)
  /\ pc' = IF pc = "stripped" THEN "detected again" ELSE "detected"
  /\ UNCHANGED <<bodyGiven, body, jsonParams, fmResult, mergeResult, createCall, issues,
                 valResult, convertResult, stripResult,
                 otherVars>>

ConvertLiquidTag ==
  /\ pc = "detected"
  /\ \E n \in 1..Len(liquidReport.tags), content \in MatchContents :
       convertResult' = convertLiquidTag(liquidReport.tags[n], content)
  /\ pc' = "converted"
  /\ UNCHANGED <<bodyGiven, body, jsonParams, fmResult, mergeResult, createCall, issues,
                 valResult, liquidReport, stripResult,
                 otherVars>>

StripLiquidTags ==
  /\ pc = "start"
  /\ stripResult' = stripLiquidTags(body)
  /\ pc' = "stripped"
  /\ UNCHANGED <<bodyGiven, body, jsonParams, fmResult, mergeResult, createCall, issues,
                 valResult, liquidReport, convertResult,
                 otherVars>>

NextLiquid == DetectLiquidTags \/ ConvertLiquidTag \/ StripLiquidTags

SpecLiquid == InitLiquid /\ [][NextLiquid]_vars

(***************************************************************************)
(* The RateLimiter used by several callers: each call of acquireCreate or  *)
(* acquireUpdate runs to its await and, when its timer has fired, to its   *)
(* end.                                                                    *)
(***************************************************************************)
InitLimiter ==
  /\ bodyGiven = FALSE
  /\ body = EmptyString
  /\ jsonParams = <<>>
  /\ pc = "limiter"
  /\ Idle

contentVars ==
  <<bodyGiven, body, jsonParams, pc, fmResult, mergeResult, createCall, issues, valResult,
    liquidVars, images, updateCall>>

AcquireCreate ==
  /\ \E c \in Callers : acquire(c, "create")
  /\ UNCHANGED <<contentVars, backoffMs, clock, hits, lastDelay, clientVars>>

AcquireUpdate ==
  /\ \E c \in Callers : acquire(c, "update")
  /\ UNCHANGED <<contentVars, backoffMs, clock, hits, lastDelay, clientVars>>

TimerFires ==
  /\ \E c \in Callers : AfterWait(c)
  /\ UNCHANGED <<contentVars, backoffMs, clock, hits, lastDelay, clientVars>>

\* a millisecond of Date.now() passes, counted in ticks
Tick ==
  /\ clock < MaxClock
  /\ clock' = clock + 1
  /\ UNCHANGED <<contentVars, buckets, backoffMs, callers, grants, hits, lastDelay,
                 clientVars>>

NextLimiter ==
  \/ AcquireCreate
  \/ AcquireUpdate
  \/ TimerFires
  \/ Tick

SpecLimiter == InitLimiter /\ [][NextLimiter]_vars

(***************************************************************************)
(* ForemClient.request, called MaxCalls times one call after the other on  *)
(* one client, so that the backoff and the buckets carry over.             *)
(***************************************************************************)
InitClient ==
  /\ bodyGiven = FALSE
  /\ body = EmptyString
  /\ jsonParams = <<>>
  /\ pc = "client"
  /\ Idle

Started(rateLimitBucket) ==
  [pc |-> IF rateLimitBucket = "none" THEN "fetch" ELSE "acquire",
   bucket |-> rateLimitBucket, attempt |-> 0, answers |-> <<>>, outcome |-> NoOutcome,
   calls |-> req.calls + 1]

\* request(method, path, body, rateLimitBucket) up to its first await
Request ==
  /\ req.pc \in {"idle", "done"}
  /\ req.calls < MaxCalls
  /\ \E rateLimitBucket \in {"none"} \cup BucketNames :
       /\ req' = Started(rateLimitBucket)
       /\ IF rateLimitBucket = "none"
          THEN UNCHANGED <<buckets, callers, grants>>
          ELSE acquire(1, rateLimitBucket)
  /\ UNCHANGED <<contentVars, backoffMs, clock, hits, lastDelay, pager>>

\* await this.rateLimiter.acquireCreate() or acquireUpdate() has resolved
Acquired ==
  /\ req.pc = "acquire"
  /\ callers[1] = Outside
  /\ req' = [req EXCEPT !.pc = "fetch"]
  /\ UNCHANGED <<contentVars, limiterVars, pager>>

\* one turn of the loop: await fetch, and what follows up to the next await
Fetch ==
  /\ req.pc = "fetch"
  /\ \E answer \in Answers :
       IF answer # Rejected /\ IsRateLimited(answer)
       THEN /\ recordRateLimitHit
            /\ req' =
                 IF req.attempt < MAX_RETRIES - 1
                 THEN [req EXCEPT !.pc = "backoff", !.answers = Append(@, answer)]
                 ELSE [req EXCEPT !.pc = "done", !.answers = Append(@, answer),
                                  !.outcome = Threw("rate_limited")]
       ELSE /\ IF answer = Rejected
               THEN UNCHANGED <<backoffMs, hits, lastDelay>>
               ELSE resetBackoff
            /\ req' = [req EXCEPT !.pc = "done", !.answers = Append(@, answer),
                                  !.outcome = Settled(answer)]
  /\ UNCHANGED <<contentVars, buckets, clock, callers, grants, pager>>

\* the timer of the backoff delay has fired: continue
Retry ==
  /\ req.pc = "backoff"
  /\ req' = [req EXCEPT !.pc = "fetch", !.attempt = @ + 1]
  /\ UNCHANGED <<contentVars, limiterVars, pager>>

NextClient ==
  \/ Request
  \/ Acquired
  \/ TimerFires
  \/ Tick
  \/ Fetch
  \/ Retry

SpecClient == InitClient /\ [][NextClient]_vars

(***************************************************************************)
(* paginateAll: one action for each turn of its loop.  The pages drawn are *)
(* all the server has: the model stops where they end.                     *)
(***************************************************************************)
InitPaginate ==
  /\ bodyGiven = FALSE
  /\ body = EmptyString
  /\ jsonParams = <<>>
  /\ pc = "paginate"
  /\ fmResult = NoParse
  /\ mergeResult = NoMerge
  /\ createCall = NoCall
  /\ issues = <<>>
  /\ valResult = NoResult
  /\ liquidReport = NoReport
  /\ convertResult = NoText
  /\ stripResult = NoText
  /\ images = <<>>
  /\ updateCall = NoUpdate
  /\ buckets = NewBuckets
  /\ backoffMs = InitialBackoffMs
  /\ clock = 0
  /\ callers = [c \in Callers |-> Outside]
  /\ grants = [bucketName \in BucketNames |-> <<>>]
  /\ hits = 0
  /\ lastDelay = 0
  /\ req = NoRequest
  /\ pager \in PageCalls

\* const batch = await fetchPage(page, perPage), and the rest of the turn
FetchPage ==
  /\ pager.pc = "loop"
  /\ pager.page <= Len(pager.batches)
  /\ LET length == pager.batches[pager.page]
         batch == Batch(pager.page, length)
         called == Append(pager.calls, <<pager.page, pager.perPage>>)
     IN pager' =
          IF length = RejectedPage
          THEN [pager EXCEPT !.pc = "threw", !.calls = called]
          ELSE IF IsShort(batch, pager.perPage)
          THEN [pager EXCEPT !.pc = "done", !.calls = called, !.results = @ \o batch]
          ELSE [pager EXCEPT !.calls = called, !.results = @ \o batch,
                             !.page = @ + 1]
  /\ UNCHANGED <<contentVars, limiterVars, req>>

NextPaginate == FetchPage

SpecPaginate == InitPaginate /\ [][NextPaginate]_vars

\* each await of fetchPage resolves or rejects: the loop is not left waiting
SpecPaginateFair == SpecPaginate /\ WF_vars(FetchPage)

(***************************************************************************)
(* validateArticle, called on bodies of eight to eleven words among code,  *)
(* images, links, HTML and formatting characters.  Each line is drawn with *)
(* the number of words it is written to leave behind.                      *)
(***************************************************************************)
Words(n) == [i \in 1..(2 * n - 1) |-> IF i % 2 = 1 THEN "w" ELSE " "]

QualityLines ==
  <<[line |-> TextLine(Words(8)), words |-> 8],
    [line |-> TextLine(Words(9)), words |-> 9],
    [line |-> FenceLine, words |-> 0],
    \* a code span: backtick w w backtick
    [line |-> TextLine(<<"backtick", "w", " ", "w", "backtick">>), words |-> 0],
    \* ![w w](./p)
    [line |-> TextLine(<<"!", "[", "w", " ", "w", "]", "(", "./", "p", ")">>), words |-> 0],
    \* [w](u v)
    [line |-> TextLine(<<"[", "w", "]", "(", "u", " ", "v", ")">>), words |-> 1],
    \* <b> w </b>
    [line |-> TextLine(<<"<", "b", ">", " ", "w", " ", "<", "/", "b", ">">>), words |-> 1],
    \* # * w
    [line |-> TextLine(<<"#", " ", "*", " ", "w">>), words |-> 1],
    [line |-> SpaceLine, words |-> 0]>>

QualityBodies ==
  UNION {{[i \in 1..n |-> QualityLines[f[i]].line] : f \in [1..n -> 1..Len(QualityLines)]} :
           n \in 1..MaxLines}

InitQuality ==
  /\ bodyGiven \in BOOLEAN
  /\ body \in (IF bodyGiven THEN QualityBodies \cup {EmptyString} ELSE {EmptyString})
  /\ jsonParams = <<[key |-> "title", value |-> Str(B)]>>
  /\ pc = "presence"
  /\ Idle

SpecQuality == InitQuality /\ [][NextValidate]_vars

(***************************************************************************)
(* extractImageUrls, called on documents of image lines.                   *)
(***************************************************************************)
\* <img src="./q"> ![](./p)
HtmlThenMarkdown ==
  TextLine(<<"<", "img", " ", "src=", "\"", "./", "q", "\"", ">", " ",
             "!", "[", "]", "(", "./", "p", ")">>)

\* ![](a)![](b)
TwoMarkdownImages ==
  TextLine(<<"!", "[", "]", "(", "a", ")", "!", "[", "]", "(", "b", ")">>)

ImageLines == {RelativeImage, AbsoluteImage, HtmlThenMarkdown, TwoMarkdownImages, WordLine}

ImageBodies == UNION {[1..n -> ImageLines] : n \in 1..MaxLines}

InitImages ==
  /\ bodyGiven = TRUE
  /\ body \in ImageBodies
  /\ jsonParams = <<>>
  /\ pc = "start"
  /\ Idle

ExtractImageUrls ==
  /\ pc = "start"
  /\ images' = extractImageUrls(body)
  /\ pc' = "extracted"
  /\ UNCHANGED <<bodyGiven, body, jsonParams, fmResult, mergeResult, createCall, issues,
                 valResult, liquidVars, updateCall, limiterVars, clientVars>>

NextImages == ExtractImageUrls

SpecImages == InitImages /\ [][NextImages]_vars

(***************************************************************************)
(* What the claims speak of.                                               *)
(***************************************************************************)
\* the front matter parseFrontMatter reads from the body
Extracted == parseFrontMatter(body).extractedValues

\* mergeAndNormalize found front matter in the body
FrontMatterFound ==
  bodyGiven /\ body # EmptyString /\ parseFrontMatter(body).hasFrontMatter

\* mergeAndNormalize returned a result
MergeReturned == pc = "merged" /\ ~mergeResult.threw

\* the explicit parameters hold a value other than undefined under the key
ExplicitHas(key) ==
  \E i \in 1..Len(jsonParams) :
    jsonParams[i].key = key /\ jsonParams[i].value # Undefined

\* the body opens with a front-matter block: the delimiter line, key/value
\* lines (well formed or not), the closing delimiter line
OpensWithBlock(doc) ==
  /\ doc[1].k = "delim"
  /\ \E c \in 2..Len(doc) :
       /\ doc[c].k = "delim"
       /\ c > 2
       /\ \A i \in 2..(c - 1) : doc[i].k \in {"kv", "bad"}

\* the body without the block it opens with
AfterBlock(doc) ==
  LET c == CHOOSE i \in 2..Len(doc) :
             doc[i].k = "delim" /\ \A j \in 2..(i - 1) : doc[j].k # "delim"
  IN IF c = Len(doc) THEN EmptyString ELSE SubSeq(doc, c + 1, Len(doc))

(***************************************************************************)
(* C1: every explicit value other than undefined (null included) is in     *)
(* result.params under its key, whatever the front matter holds.           *)
(***************************************************************************)
C1_ExplicitValueWins ==
  MergeReturned =>
    \A i \in 1..Len(jsonParams) :
      jsonParams[i].value # Undefined =>
        /\ jsonParams[i].key \in DOMAIN mergeResult.params
        /\ mergeResult.params[jsonParams[i].key] = jsonParams[i].value

\* an explicit null main_image wins over the front matter's cover_image, and
\* an explicit title over the front matter's title
C1_Witness ==
  /\ MergeReturned
  /\ FrontMatterFound
  /\ "cover_image" \in DOMAIN Extracted
  /\ "title" \in DOMAIN Extracted
  /\ \E i \in 1..Len(jsonParams) :
       jsonParams[i].key = "main_image" /\ jsonParams[i].value = Null
  /\ ExplicitHas("title")
  /\ mergeResult.params["main_image"] = Null
  /\ mergeResult.params["title"] # Extracted["title"]

(***************************************************************************)
(* C2: when the body opens with a front-matter block, malformed or not,    *)
(* the cleanBody of parseFrontMatter, the body of mergeAndNormalize and    *)
(* the body_markdown handleCreateArticle hands to the client are the body  *)
(* without the block and its delimiters.                                   *)
(***************************************************************************)
C2_BlockIsStripped ==
  (bodyGiven /\ OpensWithBlock(body)) =>
    /\ pc = "parsed" => fmResult.cleanBody = AfterBlock(body)
    /\ MergeReturned => mergeResult.body = AfterBlock(body)
    /\ (pc = "created" /\ createCall.called) =>
         createCall.body_markdown = AfterBlock(body)

(***************************************************************************)
(* C3: with front matter found, result.conflicts holds an entry for a      *)
(* field exactly when the field has an explicit value other than           *)
(* undefined, the front matter holds a value for it (cover_image standing  *)
(* for main_image) and the string forms of the two differ, both sides      *)
(* tag-normalized for tags; one entry per field at most, in the order of   *)
(* the explicit parameters.                                                *)
(***************************************************************************)
\* the front matter's value for a field, its cover_image standing for main_image
HeldFor(field) ==
  IF field = "main_image" /\ "cover_image" \in DOMAIN Extracted
  THEN <<Extracted["cover_image"]>>
  ELSE IF field \in DOMAIN Extracted THEN <<Extracted[field]>>
  ELSE <<>>

\* the string form compared for a field
StringForm(field, value) ==
  IF field = "tags" THEN normalizeTags(value) ELSE JsString(value)

ShouldConflict(entry) ==
  /\ entry.value # Undefined
  /\ HeldFor(entry.key) # <<>>
  /\ StringForm(entry.key, HeldFor(entry.key)[1]) # StringForm(entry.key, entry.value)

\* the fields of a sequence of entries
RECURSIVE FieldsOf(_)
FieldsOf(entries) ==
  IF entries = <<>> THEN <<>>
  ELSE <<entries[1].field>> \o FieldsOf(Tail(entries))

RECURSIVE KeysOf(_)
KeysOf(entries) ==
  IF entries = <<>> THEN <<>>
  ELSE <<entries[1].key>> \o KeysOf(Tail(entries))

C3_ConflictsExactlyWhereFormsDiffer ==
  (MergeReturned /\ FrontMatterFound) =>
    FieldsOf(mergeResult.conflicts) = KeysOf(SelectSeq(jsonParams, ShouldConflict))

\* two explicit entries, front matter for both: the tags list [a, b] agrees
\* with the explicit 'a, b', the other field conflicts
C3_Witness ==
  /\ MergeReturned
  /\ FrontMatterFound
  /\ Len(jsonParams) = 2
  /\ \E i \in 1..2 :
       /\ jsonParams[i].key = "tags"
       /\ "tags" \in DOMAIN Extracted
       /\ Extracted["tags"].t = "array"
  /\ Len(mergeResult.conflicts) = 1
  /\ mergeResult.conflicts[1].field # "tags"

(***************************************************************************)
(* C4: a front-matter key outside title, published, description, tags,     *)
(* series, canonical_url, cover_image never contributes a value to         *)
(* result.params and never produces a conflict entry.                      *)
(***************************************************************************)
RecognizedByClaim ==
  {"title", "published", "description", "tags", "series", "canonical_url",
   "cover_image"}

\* the keys of result.params the explicit parameters did not write
FromFrontMatter == {k \in DOMAIN mergeResult.params : ~ExplicitHas(k)}

\* the original statement
C4_UnrecognizedKeysIgnored ==
  (MergeReturned /\ FrontMatterFound) =>
    \A k \in DOMAIN Extracted \ RecognizedByClaim :
      /\ k \notin FromFrontMatter
      /\ \A i \in 1..Len(mergeResult.conflicts) : mergeResult.conflicts[i].field # k

\* as amended: main_image is a recognized key too; a key outside the list
\* contributes no value, and has a conflict entry only against an explicit
\* value under the same key
KnownFieldSet == RecognizedByClaim \cup {"main_image"}

C4_UnknownKeysGiveNoValue ==
  (MergeReturned /\ FrontMatterFound) =>
    /\ \A k \in DOMAIN Extracted \ KnownFieldSet :
         /\ k \notin FromFrontMatter
         /\ \A i \in 1..Len(mergeResult.conflicts) :
              mergeResult.conflicts[i].field = k =>
                /\ ExplicitHas(k)
                /\ JsString(Extracted[k]) # JsString(mergeResult.params[k])
    /\ \A k \in FromFrontMatter :
         \E f \in KnownFieldSet \cap DOMAIN Extracted :
           k = (IF f = "cover_image" THEN "main_image" ELSE f)

\* front matter with organization_id and a recognized key, no explicit
\* organization_id: the recognized key is in params, organization_id is not
C4_Witness ==
  /\ MergeReturned
  /\ FrontMatterFound
  /\ "organization_id" \in DOMAIN Extracted
  /\ ~ExplicitHas("organization_id")
  /\ "organization_id" \notin DOMAIN mergeResult.params
  /\ FromFrontMatter # {}

(***************************************************************************)
(* C5: with front matter found, a recognized front-matter field without    *)
(* explicit counterpart gives result.params its value: cover_image under   *)
(* the key main_image, never under cover_image; a tags list as one string  *)
(* joined by ', ', a tags string unchanged.                                *)
(***************************************************************************)
\* the key of result.params a front-matter field is stored under
TargetKey(field) == IF field = "cover_image" THEN "main_image" ELSE field

\* the original statement: the value the field has in the front matter
ValueByClaim(field) ==
  IF field = "tags" /\ Extracted[field].t = "array"
  THEN Str(Join(Extracted[field].l, <<",", " ">>))
  ELSE Extracted[field]

C5_FrontMatterValueCarried ==
  (MergeReturned /\ FrontMatterFound) =>
    \A f \in RecognizedByClaim \cap DOMAIN Extracted :
      ~ExplicitHas(TargetKey(f)) =>
        /\ TargetKey(f) \in DOMAIN mergeResult.params
        /\ mergeResult.params[TargetKey(f)] = ValueByClaim(f)
        /\ (~ExplicitHas("cover_image") => "cover_image" \notin DOMAIN mergeResult.params)

\* as amended: tags of any other type are stored in their string form ('' for
\* null), and a front-matter main_image key takes the place of cover_image
ValueAmended(field) ==
  IF field = "tags"
  THEN (IF Extracted[field].t = "array"
        THEN Str(Join(Extracted[field].l, <<",", " ">>))
        ELSE IF Extracted[field].t = "string" THEN Extracted[field]
        ELSE IF Extracted[field].t = "null" THEN Str(<<>>)
        ELSE Str(JsString(Extracted[field])))
  ELSE IF field = "cover_image" /\ "main_image" \in DOMAIN Extracted
  THEN Extracted["main_image"]
  ELSE Extracted[field]

C5_FrontMatterValueCarriedAmended ==
  (MergeReturned /\ FrontMatterFound) =>
    \A f \in RecognizedByClaim \cap DOMAIN Extracted :
      ~ExplicitHas(TargetKey(f)) =>
        /\ TargetKey(f) \in DOMAIN mergeResult.params
        /\ mergeResult.params[TargetKey(f)] = ValueAmended(f)
        /\ (~ExplicitHas("cover_image") => "cover_image" \notin DOMAIN mergeResult.params)

\* front matter with a tags list and a cover_image, neither given explicitly
C5_Witness ==
  /\ MergeReturned
  /\ FrontMatterFound
  /\ DOMAIN Extracted = {"tags", "cover_image"}
  /\ Extracted["tags"].t = "array"
  /\ ~ExplicitHas("tags")
  /\ ~ExplicitHas("main_image")
  /\ mergeResult.params["tags"] = Str(AB)
  /\ mergeResult.params["main_image"] = Extracted["cover_image"]

(***************************************************************************)
(* C6: with the body absent, or no front matter found in it, the result    *)
(* has no conflicts, params equal to the explicit parameters as given and  *)
(* the input body ('' when absent); the explicit record is not changed.    *)
(***************************************************************************)
\* the explicit record as an object: the same keys, the same values
AsGiven(params) == [k \in {params[i].key : i \in 1..Len(params)} |-> Arg(params, k)]

OpensWithEmptyBlock(doc) ==
  /\ doc[1].k = "delim"
  /\ \/ \A i \in 2..Len(doc) : LineIsBlank(doc[i])
     \/ \E c \in 2..Len(doc) :
          doc[c].k = "delim" /\ \A i \in 2..(c - 1) : LineIsBlank(doc[i])

\* what is left of such a body
AfterEmptyBlock(doc) ==
  IF \A i \in 2..Len(doc) : doc[i].k # "delim" THEN EmptyString
  ELSE AfterBlock(doc)

C8_ValidIffNoError ==
  pc = "validated" =>
    (valResult.valid <=>
       \A i \in 1..Len(valResult.issues) : valResult.issues[i].severity # "error")

\* a valid result that carries a front-matter conflict, a liquid tag and the
\* thin-content warning
C8_Witness ==
  /\ pc = "validated"
  /\ valResult.valid
  /\ \E i \in 1..Len(valResult.issues) : valResult.issues[i].code = "front_matter_conflict"
  /\ \E i \in 1..Len(valResult.issues) : valResult.issues[i].code = "liquid_tag_detected"
  /\ \E i \in 1..Len(valResult.issues) : valResult.issues[i].kind = "thin content"

(***************************************************************************)
(* C9: every check runs whatever the checks before it found: the issues    *)
(* pushed so far are the concatenation, in the order presence, tags, cover *)
(* image, body images, front-matter conflicts, liquid tags, content        *)
(* quality, of what each check already run produces on its own, and the    *)
(* function returns only after the last check, with all of them.           *)
(***************************************************************************)
ChecksInOrder ==
  <<"presence", "tags", "cover image", "body images", "front matter", "liquid tags",
    "quality">>

\* what a check produces on its own for the input
IssuesOf(check) ==
  CASE check = "presence" -> PresenceIssues(bodyGiven, body, jsonParams)
    [] check = "tags" -> TagIssues(jsonParams)
    [] check = "cover image" -> CoverImageIssues(jsonParams)
    [] check = "body images" -> BodyImageIssues(bodyGiven, body)
    [] check = "front matter" -> FrontMatterIssues(bodyGiven, body, jsonParams)
    [] check = "liquid tags" -> LiquidIssues(bodyGiven, body)
    [] check = "quality" -> QualityIssues(bodyGiven, body)

RECURSIVE IssuesOfFirst(_)
\* the issues of the first n checks, concatenated
IssuesOfFirst(n) ==
  IF n = 0 THEN <<>> ELSE IssuesOfFirst(n - 1) \o IssuesOf(ChecksInOrder[n])

\* the number of checks that have run when control is at pc
ChecksRun ==
  IF \E n \in 1..Len(ChecksInOrder) : ChecksInOrder[n] = pc
  THEN (CHOOSE n \in 1..Len(ChecksInOrder) : ChecksInOrder[n] = pc) - 1
  ELSE Len(ChecksInOrder)

C9_EveryCheckContributes ==
  pc \notin {"start", "parsed", "merged", "created"} =>
    /\ issues = IssuesOfFirst(ChecksRun)
    /\ pc = "validated" => valResult.issues = IssuesOfFirst(Len(ChecksInOrder))

\* errors of the tag check, the cover image check and the body image check
\* with, after them, a conflict warning, a liquid tag and the thin-content
\* warning
C9_Witness ==
  /\ pc = "validated"
  /\ valResult.issues # <<>>
  /\ valResult.issues[1].kind = "too many tags"
  /\ \E i \in 1..Len(valResult.issues) : valResult.issues[i].kind = "cover image"
  /\ \E i \in 1..Len(valResult.issues) : valResult.issues[i].kind = "body image"
  /\ \E i \in 1..Len(valResult.issues) : valResult.issues[i].code = "front_matter_conflict"
  /\ \E i \in 1..Len(valResult.issues) : valResult.issues[i].code = "liquid_tag_detected"
  /\ valResult.issues[Len(valResult.issues)].kind = "thin content"

(***************************************************************************)
(* C10: with front matter found in the body, validateArticle gives one     *)
(* front_matter_conflict warning for each of title, tags, description,     *)
(* main_image that the parameters hold, that the front matter holds a      *)
(* value for (cover_image standing for main_image) and whose string forms  *)
(* differ, both sides tag-normalized for tags, and no other: a             *)
(* front-matter tags list [a, b] beside the parameter 'a, b' gives none.   *)
(***************************************************************************)
\* the front-matter key a field is compared with
FrontMatterKeyOf(field) == IF field = "main_image" THEN "cover_image" ELSE field

\* the front-matter keys of the warnings given
WarnedKeys ==
  LET warnings == SelectSeq(valResult.issues,
                            LAMBDA issue : issue.code = "front_matter_conflict")
  IN [i \in 1..Len(warnings) |-> warnings[i].key]

\* the front-matter keys of the fields whose normalized string forms differ
DifferingKeys ==
  LET fields == SelectSeq(<<"title", "tags", "description", "main_image">>,
                          LAMBDA f : /\ ExplicitHas(f)
                                     /\ HeldFor(f) # <<>>
                                     /\ StringForm(f, HeldFor(f)[1])
                                          # StringForm(f, Arg(jsonParams, f)))
  IN [i \in 1..Len(fields) |-> FrontMatterKeyOf(fields[i])]

C10_WarningPerDifferingField ==
  (pc = "validated" /\ FrontMatterFound) => WarnedKeys = DifferingKeys

(***************************************************************************)
(* C11: no function of the pipeline raises: parseFrontMatter,              *)
(* mergeAndNormalize, detectLiquidTags, convertLiquidTag, stripLiquidTags  *)
(* and validateArticle return a result for every document, also for one    *)
(* holding a marker whose name is not an entry of the tag table.           *)
(***************************************************************************)
C11_NeverThrows ==
  /\ ~mergeResult.threw
  /\ ~convertResult.threw
  /\ ~stripResult.threw

(***************************************************************************)
(* C12: detectLiquidTags reports no tag whose opening marker starts inside *)
(* a fenced code region.  A region runs from a line whose trimmed text     *)
(* begins with three backticks to the next such line, or to the end of the *)
(* document when there is none.                                            *)
(***************************************************************************)
\* line n of the document lies in a fenced region: it is a fence line, or an
\* odd number of fence lines precede it
InFencedRegion(doc, n) ==
  \/ IsFenceLine(doc[n])
  \/ Cardinality({i \in 1..(n - 1) : IsFenceLine(doc[i])}) % 2 = 1

\* line n holds a marker
HoldsMarker(doc, n) == \E i \in 1..Len(doc[n].toks) : doc[n].toks[i] = "{%"

\* detectLiquidTags has returned its report of the document
Detected == pc \in {"detected", "converted"}

C12_NoTagFromFence ==
  Detected =>
    \A n \in 1..Len(liquidReport.tags) :
      ~InFencedRegion(body, liquidReport.tags[n].lineNumber)

\* a tag is reported from a document that also holds a marker in a fence that
\* is never closed
C12_Witness ==
  /\ Detected
  /\ liquidReport.tags # <<>>
  /\ \E n \in 1..Len(body) : InFencedRegion(body, n) /\ HoldsMarker(body, n)
  /\ Cardinality({i \in 1..Len(body) : IsFenceLine(body[i])}) = 1

(***************************************************************************)
(* C13: stripLiquidTags leaves the text of every fenced code region as it  *)
(* is: the lines from an opening fence line to its closing fence line, or  *)
(* to the end of the document, reappear unchanged in the output, also when *)
(* a block tag opened before the fence has its end marker inside it.       *)
(***************************************************************************)
\* line a opens a fenced region
OpensFence(doc, a) ==
  /\ IsFenceLine(doc[a])
  /\ Cardinality({i \in 1..(a - 1) : IsFenceLine(doc[i])}) % 2 = 0

\* the text of the region line a opens, its fence lines included
RegionText(doc, a) ==
  LET later == {b \in (a + 1)..Len(doc) : IsFenceLine(doc[b])}
  IN JoinLines(SubSeq(doc, a, IF later = {} THEN Len(doc) ELSE Min(later)))

\* sub is a substring of s
Occurs(sub, s) ==
  \E i \in 0..(Len(s) - Len(sub)) : SubSeq(s, i + 1, i + Len(sub)) = sub

\* stripLiquidTags has returned a string for the document
Stripped == pc \in {"stripped", "detected again"} /\ ~stripResult.threw

C13_FencedTextUnaltered ==
  Stripped =>
    \A a \in 1..Len(body) :
      OpensFence(body, a) => Occurs(RegionText(body, a), stripResult.text)

(***************************************************************************)
(* C14: after stripLiquidTags no tag is left to detect: for every document *)
(* detectLiquidTags of the stripped text reports no tag, also when the     *)
(* argument of a tag itself holds marker text.                             *)
(***************************************************************************)
C14_NothingLeftToDetect ==
  pc = "detected again" => liquidReport.tags = <<>>

(***************************************************************************)
(* C15: stripLiquidTags replaces a tag outside fenced regions by exactly   *)
(* the string convertLiquidTag returns for its match, given the trimmed    *)
(* inner content for a block tag; an unrecognized tag, inline or block, is *)
(* replaced by its trimmed argument.  Stated for the documents that hold   *)
(* one tag and no other marker.                                            *)
(***************************************************************************)
\* the markers of the document
MarkerCount(doc) ==
  Cardinality({i \in 1..Len(JoinLines(doc)) : JoinLines(doc)[i] = "{%"})

\* the one tag detectLiquidTags reports, when the document holds no marker
\* but those of that tag
OnlyTag(doc, tags) ==
  /\ Len(tags) = 1
  /\ MarkerCount(doc) = IF tags[1].hasEndTag THEN 2 ELSE 1

\* what convertLiquidTag returns for the tag, called as the claim says
ConvertedAsClaimed(tag) ==
  convertLiquidTag(tag, IF tag.hasEndTag THEN Str(Trim(BlockContent(tag))) ELSE Undefined)

\* the text with its first occurrence of fullMatch replaced by replacement
WithReplaced(text, fullMatch, replacement) ==
  LET at == Min({i \in 1..Len(text) :
                   /\ i + Len(fullMatch) - 1 <= Len(text)
                   /\ SubSeq(text, i, i + Len(fullMatch) - 1) = fullMatch})
  IN SubSeq(text, 1, at - 1) \o replacement
       \o SubSeq(text, at + Len(fullMatch), Len(text))

StrippedAsConverted(doc, tags) ==
  (OnlyTag(doc, tags) /\ ~ConvertedAsClaimed(tags[1]).threw) =>
    stripResult.text =
      WithReplaced(JoinLines(doc), tags[1].fullMatch, ConvertedAsClaimed(tags[1]).text)

C15_StripIsConvert ==
  Stripped => StrippedAsConverted(body, detectLiquidTags(body).tags)

(***************************************************************************)
(* C16: detectLiquidTags reports no marker whose tag name begins with  end *)
(* as a tag, and no inline entry for a marker that lies within the span of *)
(* a reported block entry: the entries of the report stand for different   *)
(* markers of the document.                                                *)
(***************************************************************************)
\* the indices of the markers of the text
Markers(s) == {i \in 1..Len(s) : s[i] = "{%"}

\* the entry stands for the marker at index i: its match begins there, on
\* the line the entry names
StandsFor(s, tag, i) ==
  /\ i + Len(tag.fullMatch) - 1 <= Len(s)
  /\ SubSeq(s, i, i + Len(tag.fullMatch) - 1) = tag.fullMatch
  /\ tag.lineNumber = 1 + Cardinality({j \in 1..(i - 1) : s[j] = "\n"})

\* each entry can be given a marker of its own, no inline entry one within
\* the span of a block entry
OneEntryPerMarker(s, tags) ==
  \E f \in [1..Len(tags) -> Markers(s)] :
    /\ \A n \in 1..Len(tags) : StandsFor(s, tags[n], f[n])
    /\ \A n, k \in 1..Len(tags) : n # k => f[n] # f[k]
    /\ \A n, k \in 1..Len(tags) :
         (tags[k].hasEndTag /\ ~tags[n].hasEndTag) =>
           ~(f[n] >= f[k] /\ f[n] < f[k] + Len(tags[k].fullMatch))

C16_EndMarkersAndBlockSpans ==
  Detected =>
    /\ \A n \in 1..Len(liquidReport.tags) : liquidReport.tags[n].tag[1] # "end"
    /\ OneEntryPerMarker(JoinLines(body), liquidReport.tags)

(***************************************************************************)
(* C17: detectLiquidTags returns its tags in ascending order of            *)
(* lineNumber, the number of the line the match starts on; entries of one  *)
(* line keep the order they were found in: block matches in document       *)
(* order, then inline matches in document order.                           *)
(***************************************************************************)
\* entry n comes before entry k in the order of encounter, f giving the
\* marker each entry stands for
FoundBefore(tags, f, n, k) ==
  \/ tags[n].hasEndTag /\ ~tags[k].hasEndTag
  \/ tags[n].hasEndTag = tags[k].hasEndTag /\ f[n] < f[k]

SortedStably(s, tags) ==
  /\ \A n, k \in 1..Len(tags) : n < k => tags[n].lineNumber <= tags[k].lineNumber
  /\ \E f \in [1..Len(tags) -> Markers(s)] :
       /\ \A n \in 1..Len(tags) : StandsFor(s, tags[n], f[n])
       /\ \A n, k \in 1..Len(tags) :
            (n < k /\ tags[n].lineNumber = tags[k].lineNumber) =>
              FoundBefore(tags, f, n, k)

C17_SortedByLineNumber ==
  Detected => SortedStably(JoinLines(body), liquidReport.tags)

\* an inline tag of an earlier line has been moved in front of a block tag,
\* and that block tag stays in front of an inline tag of its own line
C17_Witness ==
  /\ Detected
  /\ Len(liquidReport.tags) = 3
  /\ ~liquidReport.tags[1].hasEndTag
  /\ liquidReport.tags[2].hasEndTag
  /\ ~liquidReport.tags[3].hasEndTag
  /\ liquidReport.tags[1].lineNumber < liquidReport.tags[2].lineNumber
  /\ liquidReport.tags[2].lineNumber = liquidReport.tags[3].lineNumber

(***************************************************************************)
(* C18: in the report of detectLiquidTags hasCrossPostUnsafe is true       *)
(* exactly when some tag has crossPostSafe false; a tag whose name is not  *)
(* in the tag table is reported with crossPostSafe false, and an empty     *)
(* report has hasCrossPostUnsafe false.                                    *)
(***************************************************************************)
\* the name is an entry of the tag table
InTagTable(tagName) == Len(tagName) = 1 /\ tagName[1] \in DOMAIN TAG_DEFS

C18_UnsafeIffSomeTagUnsafe ==
  Detected =>
    /\ liquidReport.hasCrossPostUnsafe =
         (\E n \in 1..Len(liquidReport.tags) : ~liquidReport.tags[n].crossPostSafe)
    /\ \A n \in 1..Len(liquidReport.tags) :
         ~InTagTable(liquidReport.tags[n].tag) => ~liquidReport.tags[n].crossPostSafe
    /\ liquidReport.tags = <<>> => ~liquidReport.hasCrossPostUnsafe

\* a tag with a name outside the table has been reported
C18_Witness ==
  /\ Detected
  /\ liquidReport.hasCrossPostUnsafe
  /\ \E n \in 1..Len(liquidReport.tags) :
       ~InTagTable(liquidReport.tags[n].tag) /\ ~liquidReport.tags[n].crossPostSafe

(***************************************************************************)
(* C19: validateArticle, for a tags value whose list of entries (the       *)
(* string split at its commas, or the array; each entry trimmed and        *)
(* lowercased) has more than 4 entries, returns valid = false and exactly  *)
(* one error  Too many tags  carrying the count; for 4 entries or fewer it *)
(* returns no such error.                                                  *)
(***************************************************************************)
\* the tags parameter of the call
TagsGiven == Arg(jsonParams, "tags")

\* validateArticle has returned for a call that had a tags parameter
ValidatedTags == pc = "validated" /\ TagsGiven # Undefined

\* the list of the claim: the entries, each trimmed and lowercased
ListAsClaimed(tags) ==
  LET entries == IF tags.t = "array" THEN tags.l ELSE Split(tags.s)
  IN [i \in 1..Len(entries) |-> ToLowerCase(Trim(entries[i]))]

\* the same list, without the empty entries when it comes from a string
ListAmended(tags) ==
  IF tags.t = "array" THEN ListAsClaimed(tags)
  ELSE SelectSeq(ListAsClaimed(tags), LAMBDA t : t # <<>>)

TooManyIssues == SelectSeq(valResult.issues, LAMBDA i : i.kind = "too many tags")

\* the result is as the claim says for a list of these entries
TooManyTagsFor(list) ==
  IF Len(list) > 4
  THEN /\ ~valResult.valid
       /\ Len(TooManyIssues) = 1
       /\ TooManyIssues[1].severity = "error"
       /\ TooManyIssues[1].n = Len(list)
  ELSE TooManyIssues = <<>>

C19_TooManyTags == ValidatedTags => TooManyTagsFor(ListAsClaimed(TagsGiven))

\* C19 as amended: the empty entries of a comma-separated string are dropped
\* before the entries are counted; those of an array are counted.
C19_TooManyTagsAmended == ValidatedTags => TooManyTagsFor(ListAmended(TagsGiven))

\* a string of five entries, none empty, has been refused
C19_Witness ==
  /\ ValidatedTags
  /\ TagsGiven.t = "string"
  /\ Len(ListAmended(TagsGiven)) = 5
  /\ Len(TooManyIssues) = 1
  /\ ~valResult.valid

(***************************************************************************)
(* C20: validateArticle emits exactly one  Invalid tag  error for each     *)
(* entry of the tag list that does not match the pattern of lowercase      *)
(* letters, digits and underscores, and none for any other entry; the      *)
(* entries are tested trimmed and lowercased, those of an array as those   *)
(* of a comma-separated string.                                            *)
(***************************************************************************)
\* one or more lowercase letters, digits or underscores; a and b are the
\* letters of the model
MatchesTagPattern(tag) ==
  tag # <<>> /\ \A i \in 1..Len(tag) : tag[i] \in {"a", "b"}

InvalidTagIssues == SelectSeq(valResult.issues, LAMBDA i : i.kind = "invalid tag")

\* one error for each entry of the list that fails the pattern, in order
InvalidTagsFor(list) ==
  LET offending == SelectSeq(list, LAMBDA t : ~MatchesTagPattern(t))
  IN /\ Len(InvalidTagIssues) = Len(offending)
     /\ \A i \in 1..Len(offending) :
          /\ InvalidTagIssues[i].severity = "error"
          /\ InvalidTagIssues[i].text = offending[i]

C20_InvalidTags == ValidatedTags => InvalidTagsFor(ListAsClaimed(TagsGiven))

\* C20 as amended: an empty entry of a comma-separated string is dropped and
\* gives no error; an empty entry of an array is tested and gives one.
C20_InvalidTagsAmended == ValidatedTags => InvalidTagsFor(ListAmended(TagsGiven))

\* a string with an entry that passes once trimmed and lowercased, an empty
\* entry and an entry that fails: one error
C20_Witness ==
  /\ ValidatedTags
  /\ TagsGiven.t = "string"
  /\ Len(ListAsClaimed(TagsGiven)) = 3
  /\ Len(ListAmended(TagsGiven)) = 2
  /\ Len(InvalidTagIssues) = 1

(***************************************************************************)
(* C21: validateArticle reports one image_not_absolute error for a cover   *)
(* image that is given and does not begin with http:// or https:// in any  *)
(* letter case, and one for each image reference of the body whose URL     *)
(* does not begin so, and no other; each body-image error carries the      *)
(* 1-based number of the line the reference stands on.                      *)
(***************************************************************************)
\* the string begins with http:// or https://, in any letter case
BeginsWithHttp(url) == url # <<>> /\ url[1] \in {"http://", "https://", "HTTP://"}

ImageErrors == SelectSeq(valResult.issues, LAMBDA e : e.code = "image_not_absolute")

\* 1 for a cover image that is given and is not absolute
CoverImageCount ==
  IF Arg(jsonParams, "main_image") \notin {Undefined, Str(<<>>)}
     /\ ~BeginsWithHttp(Arg(jsonParams, "main_image").s)
  THEN 1 ELSE 0

\* the references of the body that are not absolute
RelativeReferences ==
  IF bodyGiven
  THEN SelectSeq(extractImageUrls(body), LAMBDA image : ~BeginsWithHttp(image.url))
  ELSE <<>>

C21_ImageNotAbsoluteCount ==
  pc = "validated" =>
    LET bodyErrors == SelectSeq(ImageErrors, LAMBDA e : e.kind = "body image")
    IN /\ Len(ImageErrors) = CoverImageCount + Len(RelativeReferences)
       /\ Len(bodyErrors) = Len(RelativeReferences)
       /\ \A i \in 1..Len(bodyErrors) :
            /\ bodyErrors[i].text = RelativeReferences[i].url
            /\ bodyErrors[i].n \in 1..Len(body)
            /\ Occurs(bodyErrors[i].text, body[bodyErrors[i].n].toks)

\* a relative cover image and a relative image on a line after the front matter
C21_Witness ==
  /\ pc = "validated"
  /\ CoverImageCount = 1
  /\ \E i \in 1..Len(ImageErrors) : ImageErrors[i].kind = "body image" /\ ImageErrors[i].n > 4
  /\ Len(ImageErrors) >= 2

(***************************************************************************)
(* C22: extractImageUrls returns its references by line number, never      *)
(* descending, and the references of one line in the order they stand on   *)
(* the line from left to right, markdown images and img elements alike.    *)
(* As amended: the markdown images of a line from left to right, then the  *)
(* img elements of that line from left to right.                           *)
(***************************************************************************)
RECURSIVE MarkdownOccurrences(_, _)
\* the markdown images of a line, each with the index it begins at
MarkdownOccurrences(line, from) ==
  LET starts == {s \in from..Len(line) : MarkdownImageAt(line, s).ok}
  IN IF starts = {} THEN {}
     ELSE {[start |-> Min(starts), url |-> Trim(MarkdownImageAt(line, Min(starts)).url)]}
            \cup MarkdownOccurrences(line, MarkdownImageAt(line, Min(starts)).last + 1)

RECURSIVE HtmlOccurrences(_, _)
\* the img elements of a line, each with the index it begins at
HtmlOccurrences(line, from) ==
  LET starts == {s \in from..Len(line) : HtmlImageAt(line, s).ok}
  IN IF starts = {} THEN {}
     ELSE {[start |-> Min(starts), url |-> Trim(HtmlImageAt(line, Min(starts)).url)]}
            \cup HtmlOccurrences(line, HtmlImageAt(line, Min(starts)).last + 1)

RECURSIVE LeftToRight(_)
\* the URLs of a set of occurrences, by the index they begin at
LeftToRight(occurrences) ==
  IF occurrences = {} THEN <<>>
  ELSE LET first == CHOOSE o \in occurrences : \A other \in occurrences : o.start <= other.start
       IN <<first.url>> \o LeftToRight(occurrences \ {first})

\* the URLs extractImageUrls returned for line n, in the order returned
UrlsOfLine(n) ==
  LET found == SelectSeq(images, LAMBDA image : image.lineNumber = n)
  IN [i \in 1..Len(found) |-> found[i].url]

NeverDescending ==
  \A i \in 1..(Len(images) - 1) : images[i].lineNumber <= images[i + 1].lineNumber

C22_LeftToRight ==
  pc = "extracted" =>
    /\ NeverDescending
    /\ \A n \in 1..Len(body) :
         UrlsOfLine(n) =
           LeftToRight(MarkdownOccurrences(body[n].toks, 1) \cup HtmlOccurrences(body[n].toks, 1))

C22_MarkdownThenHtml ==
  pc = "extracted" =>
    /\ NeverDescending
    /\ \A n \in 1..Len(body) :
         UrlsOfLine(n) =
           LeftToRight(MarkdownOccurrences(body[n].toks, 1))
             \o LeftToRight(HtmlOccurrences(body[n].toks, 1))

\* an img element stands before a markdown image on a line that is not the first
C22_Witness ==
  /\ pc = "extracted"
  /\ \E n \in 2..Len(body) : body[n] = HtmlThenMarkdown /\ Len(UrlsOfLine(n)) = 2
  /\ Len(images) >= 3

(***************************************************************************)
(* C23: isSubstantialContent is true exactly when ten words or more are    *)
(* left once fenced code blocks, code spans, images, link targets (the     *)
(* label stays), HTML tags and the characters # * _ ~ > - are removed, and *)
(* false for an empty or blank string; validateArticle adds one warning,   *)
(* never an error, exactly when the body is given and not substantial.     *)
(***************************************************************************)
\* the words the line is written to leave behind
WordsOf(line) ==
  IF \E i \in 1..Len(QualityLines) : QualityLines[i].line = line
  THEN QualityLines[CHOOSE i \in 1..Len(QualityLines) : QualityLines[i].line = line].words
  ELSE 0

RECURSIVE WordsLeftFrom(_, _, _)
\* the words left after line i - 1; the lines between two fence lines leave none
WordsLeftFrom(doc, i, fenced) ==
  IF i > Len(doc) THEN 0
  ELSE IF doc[i] = FenceLine THEN WordsLeftFrom(doc, i + 1, ~fenced)
  ELSE (IF fenced THEN 0 ELSE WordsOf(doc[i])) + WordsLeftFrom(doc, i + 1, fenced)

\* every fence that opens is closed
FencesClosed(doc) == Cardinality({i \in 1..Len(doc) : doc[i] = FenceLine}) % 2 = 0

SubstantialAsClaimed(doc) ==
  IF doc = EmptyString THEN FALSE
  ELSE IF FencesClosed(doc) THEN WordsLeftFrom(doc, 1, FALSE) >= 10
  ELSE isSubstantialContent(doc)

ThinContentIssues == SelectSeq(valResult.issues, LAMBDA e : e.kind = "thin content")

C23_SubstantialContent ==
  pc = "validated" =>
    /\ Len(ThinContentIssues) =
         (IF bodyGiven /\ body # EmptyString /\ ~SubstantialAsClaimed(body) THEN 1 ELSE 0)
    /\ \A i \in 1..Len(ThinContentIssues) : ThinContentIssues[i].severity = "warning"
    /\ valResult.valid = ~HasErrors(valResult.issues)

\* nine words and a code span: a warning, and the article is valid
C23_Witness ==
  /\ pc = "validated"
  /\ FencesClosed(body)
  /\ WordsLeftFrom(body, 1, FALSE) = 9
  /\ \E i \in 1..Len(body) : body[i] = QualityLines[4].line
  /\ Len(ThinContentIssues) = 1
  /\ valResult.valid

(***************************************************************************)
(* C28: whatever the interleaving of the callers of acquireCreate and      *)
(* acquireUpdate, the acquisitions granted on a bucket within any window   *)
(* of windowMs never exceed the maxTokens of the bucket.                   *)
(***************************************************************************)
\* the acquisitions granted on the bucket in the window that ends at time t
GrantedInWindow(bucketName, t) ==
  Cardinality({i \in 1..Len(grants[bucketName]) :
                 /\ grants[bucketName][i] <= t
                 /\ t - grants[bucketName][i] < buckets[bucketName].windowMs})

C28_WindowNeverExceeded ==
  \A bucketName \in BucketNames, t \in 0..MaxClock :
    GrantedInWindow(bucketName, t) <= buckets[bucketName].maxTokens

\* acquire changes the bucket it is called on and no other
C28_BucketsApart ==
  [][\A bucketName \in BucketNames :
       (buckets[bucketName] # buckets'[bucketName]
          \/ grants[bucketName] # grants'[bucketName])
         => \A other \in BucketNames \ {bucketName} :
              buckets[other] = buckets'[other] /\ grants[other] = grants'[other]]_vars

(***************************************************************************)
(* C24: the k-th call of recordRateLimitHit since the RateLimiter was      *)
(* built or since the last resetBackoff returns min(3000 * 2^(k-1),        *)
(* 30000): 3000, 6000, 12000, 24000, then 30000 at every later call; after *)
(* resetBackoff the next hit returns 3000; the stored backoff is always    *)
(* one of these five values.                                               *)
(***************************************************************************)
RECURSIVE PowerOfTwo(_)
PowerOfTwo(n) == IF n = 0 THEN 1 ELSE 2 * PowerOfTwo(n - 1)

\* min(3000 * 2^(k-1), 30000)
DelayOfHit(k) ==
  IF 3000 * PowerOfTwo(k - 1) < 30000 THEN 3000 * PowerOfTwo(k - 1) ELSE 30000

C24_BackoffDoublesToCeiling ==
  /\ backoffMs \in {3000, 6000, 12000, 24000, 30000}
  /\ hits >= 1 => lastDelay = DelayOfHit(hits)
  /\ backoffMs = DelayOfHit(hits + 1)

\* a fifth hit in a row has returned the ceiling
C24_Witness == hits >= 5 /\ lastDelay = 30000 /\ backoffMs = 30000

\* a hit after a reset that followed hits has returned 3000 again
C24_WitnessAfterReset ==
  /\ hits = 1
  /\ lastDelay = 3000
  /\ req.calls >= 2
  /\ Len(req.answers) >= 1

(***************************************************************************)
(* C25: ForemClient.request fetches at most 3 times in a call and fetches  *)
(* again only after an answer of 429: it throws rate_limited exactly when  *)
(* all 3 answers were 429, the first answer that is anything else decides  *)
(* the outcome, and a rejected fetch ends the call at once with api_error. *)
(***************************************************************************)
\* what the claim makes of the answer that ends a call
OutcomeOf(answer) ==
  CASE answer = Rejected -> Threw("api_error")
    [] answer = 204 -> ReturnedUndefined
    [] answer \in 200..299 -> ReturnedBody
    [] answer = 401 -> Threw("auth_failed")
    [] answer = 403 -> Threw("forbidden")
    [] answer = 404 -> Threw("not_found")
    [] answer \in 400..499 -> Threw("invalid_request")
    [] OTHER -> Threw("api_error")

C25_RetryOn429Only ==
  /\ Len(req.answers) <= 3
  /\ \A i \in 1..(Len(req.answers) - 1) : req.answers[i] = 429
  /\ req.pc \in {"fetch", "backoff"} => \A i \in 1..Len(req.answers) : req.answers[i] = 429
  /\ req.pc = "done" =>
       /\ req.outcome = Threw("rate_limited") <=> req.answers = <<429, 429, 429>>
       /\ req.answers[Len(req.answers)] # 429 =>
            req.outcome = OutcomeOf(req.answers[Len(req.answers)])
       /\ req.answers[Len(req.answers)] = 429 => Len(req.answers) = 3

\* a call that was answered 429 twice and then rejected
C25_Witness ==
  /\ req.pc = "done"
  /\ req.answers = <<429, 429, Rejected>>
  /\ req.outcome = Threw("api_error")

\* a call that was answered 429 three times
C25_WitnessRateLimited ==
  /\ req.pc = "done"
  /\ req.answers = <<429, 429, 429>>
  /\ req.outcome = Threw("rate_limited")

(***************************************************************************)
(* C26: paginateAll calls fetchPage with page 1, 2, 3, ... and the same    *)
(* perPage, stops after the first batch shorter than perPage and returns   *)
(* the batches joined in page order: k calls when the first short batch is *)
(* the k-th; and it terminates whenever some page is short.                *)
(***************************************************************************)
\* the page is short: fewer items than perPage
ShortPage(p) == pager.batches[p] # RejectedPage /\ pager.batches[p] < pager.perPage

\* the first page that is short or rejected, 0 when there is none
FirstEnd ==
  LET ends == {p \in 1..Len(pager.batches) : ShortPage(p) \/ pager.batches[p] = RejectedPage}
  IN IF ends = {} THEN 0 ELSE Min(ends)

RECURSIVE Concatenated(_)
\* the batches of pages 1 to k, joined in page order
Concatenated(k) ==
  IF k = 0 THEN <<>> ELSE Concatenated(k - 1) \o Batch(k, pager.batches[k])

PagesInOrder ==
  /\ \A i \in 1..Len(pager.calls) : pager.calls[i] = <<i, pager.perPage>>
  /\ FirstEnd # 0 => Len(pager.calls) <= FirstEnd
  /\ pager.pc = "done" =>
       /\ FirstEnd # 0
       /\ ShortPage(FirstEnd)
       /\ Len(pager.calls) = FirstEnd
       /\ pager.results = Concatenated(FirstEnd)

\* some page is short and no page before it is rejected
SomePageShort == FirstEnd # 0 /\ ShortPage(FirstEnd)

C26_PaginateAll == []PagesInOrder /\ (SomePageShort ~> pager.pc = "done")

\* two full pages and a short third one: three calls, the items in page order
C26_Witness ==
  /\ pager.pc = "done"
  /\ Len(pager.calls) = 3
  /\ pager.perPage = 2
  /\ Len(pager.results) = 5

(***************************************************************************)
(* C27: draft-first.  handleCreateArticle passes published = false to      *)
(* client.createArticle whenever args.published is undefined and           *)
(* defaultPublished is false, whatever the front matter of the body says;  *)
(* it passes published = true only when args.published is true, or is      *)
(* undefined while defaultPublished is true.                               *)
(***************************************************************************)
\* the front matter of the body holds published: true
FrontMatterPublishes ==
  bodyGiven /\ \E i \in 1..Len(body) : body[i] = KV("published", Bool(TRUE))

C27_DraftFirst ==
  pc = "created" /\ createCall.called =>
    /\ "published" \in DOMAIN createCall.articleParams
    /\ createCall.published = Undefined /\ ~createCall.defaultPublished
         => createCall.articleParams["published"] = Bool(FALSE)
    /\ createCall.articleParams["published"] = Bool(TRUE)
         => \/ createCall.published = Bool(TRUE)
            \/ createCall.published = Undefined /\ createCall.defaultPublished

\* front matter with published: true, no argument, no default: a draft is created
C27_Witness ==
  /\ pc = "created"
  /\ createCall.called
  /\ FrontMatterPublishes
  /\ createCall.published = Undefined
  /\ ~createCall.defaultPublished
  /\ createCall.articleParams["published"] = Bool(FALSE)
  /\ createCall.body_markdown = <<WordLine>>

(***************************************************************************)
(* C29: the record handleUpdateArticle passes to client.updateArticle      *)
(* holds published only when args.published is given, also when the front  *)
(* matter of body_markdown has a published key.                            *)
(***************************************************************************)
C29_PublishedOnlyWhenGiven ==
  pc = "updated" /\ updateCall.called =>
    ("published" \in DOMAIN updateCall.articleParams => updateCall.published # Undefined)

(***************************************************************************)
(* C30: a block tag that lies wholly outside the fenced regions is         *)
(* reported by detectLiquidTags as one entry with hasEndTag true and the   *)
(* line number of its opening marker, also when an opening marker of the   *)
(* same name stands inside a fenced region before it; and stripLiquidTags  *)
(* converts it as a block, leaving no end marker behind.                   *)
(***************************************************************************)
\* the name of the block the document ends with, after its fenced region of
\* three lines; its opening marker stands on the fourth line, one more than the
\* three backticks of the first
BlockName == CHOOSE name \in BlockNames : \E block \in BlockOf(name) : SubSeq(body, 4, Len(body)) = block

\* the text holds an end marker
HoldsEndMarker(text) ==
  \E i \in 1..(Len(text) - 2) : text[i] = "{%" /\ text[i + 1] = " " /\ text[i + 2] = "end"

C30_BlockAfterFence ==
  body \in FencedThenBlock =>
    /\ Detected =>
         /\ Len(liquidReport.tags) = 1
         /\ liquidReport.tags[1].tag = BlockName
         /\ liquidReport.tags[1].hasEndTag
         /\ liquidReport.tags[1].lineNumber = Len(body[1].toks) + 1
    /\ Stripped => ~HoldsEndMarker(stripResult.text)

\* the same, for the blocks no opening marker of their name precedes in a fence
C30_BlockAfterOtherFence ==
  body \in FencedThenBlock /\ body[2] # TextLine(Marker(BlockName, <<"x">>)) =>
    /\ Detected =>
         /\ Len(liquidReport.tags) = 1
         /\ liquidReport.tags[1].tag = BlockName
         /\ liquidReport.tags[1].hasEndTag
         /\ liquidReport.tags[1].lineNumber = Len(body[1].toks) + 1
    /\ Stripped => ~HoldsEndMarker(stripResult.text)

====
